---- MODULE Spec2Model ----
(***************************************************************************)
(* A model of the performance-helper SDK.                                  *)
(*                                                                         *)
(*   Reporter              src/src/core/reporter.ts                        *)
(*   PerformanceCollector  src/examples/usage.ts (core/performance)        *)
(*                                                                         *)
(* The page is one thread: every handler (a call of the API, a timer       *)
(* callback, an event listener, a promise reaction, an observer callback)  *)
(* runs to completion, so each is one action.                              *)
(***************************************************************************)
EXTENDS Integers, Sequences, FiniteSets, TLC

\* How many report() calls a run makes.
MaxReports == 3
\* How many transport calls a run makes (failed sends are requeued without limit).
MaxSent == 4
\* How many long tasks the page runs.
MaxTasks == 3
\* How many init() calls of the collector subscribe its observers.
MaxSubscriptions == 2
\* How many layout shifts the page has.
MaxShifts == 4
\* How many LCP candidates the page has.
MaxCandidates == 2
\* How many start() calls start the monitor.
MaxStarts == 2
\* How many frames the monitor sees.
MaxFrames == 2
\* How many DOM mutations the monitor is told of.
MaxMutations == 2
\* How many callbacks of the measure observer run.
MaxMeasures == 2
\* How many reflow records a queried monitor holds.
MaxRecords == 5
\* How many elements the GPU scan classifies.
MaxScanned == 1
\* init() calls of a PerformanceHelper
MaxInits == 3
\* page events (tasks, shifts, candidates, paints, inputs, frames, mutations,
\* measures) while a PerformanceHelper is torn down
MaxEvents == 3
MaxChain == 7
\* markReflow and markRepaint calls
MaxMarks == 3
\* milliseconds the page's clock runs
MaxClock == 2
\* frames of a page whose frames drift
MaxDrift == 4
\* steps of 2.5 s the page's clock runs while suspicions decay
\* The candidate elements of the largest page the GPU scan is run on.
MaxPage == 101

\* The computed-style reads of a page's scripts.
MaxReads == 9

MaxDecaySteps == 3

VARIABLES
  \* ---- Reporter: options and host
  reportUrl,      \* options.reportUrl: "" when absent
  immediate,      \* options.immediate || false
  hasSendBeacon,  \* whether navigator.sendBeacon exists in this host
  \* ---- Reporter: fields
  queue,          \* this.queue, a sequence of envelopes
  timer,          \* this.timer: 0 when undefined, else the interval handle
  \* ---- host
  intervals,      \* the interval handles that are active
  sent,           \* every call of a transport, in order
  inflight,       \* the payloads of fetch() calls whose promise is not settled
  thrown,         \* whether the last handler ended by raising an error
  \* ---- history
  reported,       \* the number of report() calls so far
  last,           \* the last handler that ran, with the state it started from
  occurred,       \* which of timer / destroy / unload / fetchFail ran so far
  awaitingRetry,  \* envelopes requeued after a failure and not handed over since
  requeues,       \* per envelope, how often a failure has requeued it
  \* ---- PerformanceCollector: fields
  metrics,          \* this.metrics: a function from the names that are set
  initialized,      \* this.initialized
  longTaskObserver, \* "undefined", "observing" or "disconnected"
  \* ---- host
  timeline,         \* the long-task entries of the performance timeline
  observerQueue,    \* the entries queued for the long-task observer's callback
  \* ---- history
  observations,     \* every entry handed to the long-task callback, in order
  subscriptions,    \* the number of init() calls that subscribed
  snapshots,        \* the results of the last (at most two) collect() calls
                    \* since the last observation
  \* ---- PerformanceCollector: layout shifts (CLS)
  clsObserver,      \* "undefined", "observing" or "disconnected"
  clsValue,         \* the local clsValue of the observer's callback
  clsEntries,       \* the local clsEntries of the observer's callback
  \* ---- host
  shiftTimeline,    \* the layout-shift entries the host buffers
  clsQueue,         \* the entries queued for the layout-shift observer's callback
  \* ---- history
  clsDelivered,     \* the entries handed to the current observer's callback
  \* ---- PerformanceCollector: largest contentful paint (LCP)
  lcpObserver,      \* "undefined", "observing" or "disconnected"
  \* ---- host
  lcpExposed,       \* whether getEntriesByType returns the LCP candidates
  lcpTimeline,      \* the LCP candidates the host buffers
  lcpQueue,         \* the candidates queued for the LCP observer's callback
  \* ---- history
  lcpFired,         \* the last firing of the LCP callback: its entries and the
                    \* metrics it started from (empty after a collect())
  \* ---- RenderMonitor: fields
  isMonitoring,       \* this.isMonitoring
  reflows,            \* this.reflows
  repaints,           \* this.repaints
  suspiciousElements, \* this.reflowDetector.suspiciousElements, in insertion order
  frameObserver,      \* "undefined" or "observing"
  markTimeouts,       \* the pending setTimeout(0) callbacks of markReflow and
                      \* markRepaint, in order, each with its element and reason
  mutationObserver,   \* "undefined" or "observing"
  \* ---- host
  frameLoops,         \* the checkFrame callbacks that requestAnimationFrame holds,
                      \* each with its local droppedFrames
  mutationQueue,      \* the records queued for the mutation observer's callback
  measureQueue,       \* the measures queued for the measure observer's callback
  clock,              \* performance.now(), in milliseconds
  perfEntries,        \* the performance timeline: its marks and its measures
  decayTimers,        \* the targets of the pending 5000 ms timeouts, in order
  decaySet,           \* the clock at which each of these timeouts was set
  \* ---- history
  renderCalls,        \* how many start() calls, frames, mutations and measure
                      \* batches there were
  markCalls,          \* the markReflow and markRepaint calls: kind, reason,
                      \* whether the monitor was monitoring, the times of the
                      \* call's own markers, the record it appended
  frequent,           \* the last getFrequentReflowElements() call: its
                      \* threshold, its result and the reflows it started from
  \* ---- RenderMonitor: GPU acceleration
  gpuAcceleratedElements, \* this.gpuAcceleratedElements
  \* ---- host
  computedAsDeclared,     \* whether getComputedStyle returns a transform as
                          \* declared (a host without layout) or resolved to a
                          \* matrix (a browser)
  \* ---- history
  gpuScanned,             \* the elements scanned: the declared style and the
                          \* GPUAccelerationInfo of each
  \* ---- RenderMonitor: the deferred GPU scan
  gpuScans,               \* the pending steps of the scans start() has asked
                          \* for, in the order they were registered: a load
                          \* listener, an idle request, or the continuation of
                          \* a scan with its candidates and its index
  \* ---- history
  scanLog,                \* the batches run so far: the scan, its number of
                          \* candidates, and the batch's index and endIndex
  \* ---- RenderMonitor: the wrappers of window.getComputedStyle
  styleReaders,           \* the wrappers start() has installed, the first
                          \* installed first: the readCount, lastReadTime and
                          \* readElements (in insertion order) of each
  \* ---- history
  styleReads,             \* the reads of the page's scripts: how many, the
                          \* times of the last six, and of the last one its
                          \* element, what the wrappers passed to markRepaint
                          \* and the counts the first wrapper held then
  \* ---- PerformanceCollector: first contentful paint and first input
  fcpObserver,      \* this.fcpObserver
  fidObserver,      \* this.fidObserver
  \* ---- host
  paintTimeline,    \* the paint entries of the page so far
  fcpQueue,         \* entries queued for the paint observer's callback
  inputTimeline,    \* the first-input entry of the page, once there is one
  fidQueue,         \* entries queued for the first-input observer's callback
  \* ---- a caller of collect()
  held,             \* whether the caller keeps what collect() returns, and
                    \* the value collect() returned to it last
  \* ---- PerformanceHelper
  helperInitialized, \* this.initialized
  helperOptions,     \* this.options: monitorResources, monitorErrors,
                     \* monitorPerformance, sampleRate (in hundredths)
  \* ---- host
  readyState,        \* document.readyState
  registered,        \* what init() has registered: load listeners, resource
                     \* observers, starts of the error monitor
  loadTimers,        \* pending 2000 ms timeouts of the load listeners
  host,              \* whether window has PerformanceObserver, the entry
                     \* types the host does not support, and whether
                     \* observe() of an unsupported type throws or is ignored
  navigation,        \* what performance.getEntriesByType('navigation') does
                     \* in this host, whether performance.timing exists, and
                     \* whether the page came from the cache
  \* ---- history
  helperCalls        \* the init() calls and the warnings so far; what was
                     \* queued for callbacks at the last destroy(), and the
                     \* metrics and records it left (until the next init())

reporterVars == <<reportUrl, immediate, hasSendBeacon, queue, timer, intervals,
                  sent, inflight, thrown, reported, last, occurred, awaitingRetry,
                  requeues>>

collectorVars == <<metrics, initialized, longTaskObserver, timeline, observerQueue,
                   observations, subscriptions, snapshots>>

clsVars == <<clsObserver, clsValue, clsEntries, shiftTimeline, clsQueue, clsDelivered>>

lcpVars == <<lcpObserver, lcpExposed, lcpTimeline, lcpQueue, lcpFired>>

renderVars == <<isMonitoring, reflows, repaints, suspiciousElements, frameObserver, measureQueue,
                mutationObserver, frameLoops, mutationQueue, decayTimers, decaySet,
                renderCalls, frequent>>

gpuVars == <<gpuAcceleratedElements, computedAsDeclared, gpuScanned>>

scanVars == <<gpuScans, scanLog>>

styleVars == <<styleReaders, styleReads>>

paintVars == <<fcpObserver, fcpQueue, paintTimeline>>

fidVars == <<fidObserver, fidQueue, inputTimeline>>

helperVars == <<helperInitialized, helperOptions, readyState, registered, loadTimers,
                helperCalls>>

hostVars == <<host, navigation>>

\* The page's clock and timeline, and the markReflow and markRepaint calls.
markVars == <<clock, perfEntries, markTimeouts, markCalls>>

\* Everything of the PerformanceCollector and its caller.
vitalsVars == <<collectorVars, clsVars, lcpVars, paintVars, fidVars, held>>

\* Everything but the Reporter.
pageVars == <<markVars, vitalsVars, renderVars, gpuVars, scanVars, styleVars, helperVars, hostVars>>

\* Everything but the PerformanceCollector and its caller.
outsideVars == <<markVars, reporterVars, renderVars, gpuVars, scanVars, styleVars,
                 helperVars, hostVars>>

\* Everything the long-task, layout-shift and LCP channels leave alone.
otherVars == <<outsideVars, paintVars, fidVars, held>>

\* Everything but the RenderMonitor's records.
nonMarkVars == <<reporterVars, vitalsVars, gpuVars, scanVars, styleVars, helperVars, hostVars>>
nonRenderVars == <<nonMarkVars, markVars>>

\* Everything but the RenderMonitor's GPU findings.
nonGpuVars == <<markVars, reporterVars, vitalsVars, renderVars, scanVars, styleVars,
                helperVars, hostVars>>

vars == <<reporterVars, pageVars>>

Range(s) == {s[i] : i \in 1..Len(s)}

\* The handle window.setInterval returns: a positive integer.
IntervalHandle == 1

(***************************************************************************)
(* Reporter                                                                *)
(***************************************************************************)

\* send() without the reportUrl test.
Reporter_send_noUrlCheck(data, by) ==
  IF hasSendBeacon
    THEN /\ sent' = Append(sent, [via |-> "beacon", data |-> data, by |-> by])
         /\ inflight' = inflight
    ELSE /\ sent' = Append(sent, [via |-> "fetch", data |-> data, by |-> by])
         /\ inflight' = inflight \cup {data}

\* send(data): console without a reportUrl, else sendBeacon, else fetch with
\* keepalive. The promise of fetch settles later (FetchFulfilled, FetchRejected).
Reporter_send(data, by) ==
  IF reportUrl = ""
    THEN /\ sent' = Append(sent, [via |-> "console", data |-> data, by |-> by])
         /\ inflight' = inflight
    ELSE IF hasSendBeacon
      THEN /\ sent' = Append(sent, [via |-> "beacon", data |-> data, by |-> by])
           /\ inflight' = inflight
      ELSE /\ sent' = Append(sent, [via |-> "fetch", data |-> data, by |-> by])
           /\ inflight' = inflight \cup {data}

\* report() that sends in either mode.
Reporter_report_sendsAlways(e) ==
  /\ Reporter_send(<<e>>, "report")
  /\ queue' = queue
  /\ thrown' = FALSE
  /\ UNCHANGED <<timer, intervals>>

\* report() that sends and also keeps the envelope.
Reporter_report_keeps(e) ==
  /\ IF immediate
       THEN Reporter_send(<<e>>, "report")
       ELSE UNCHANGED <<sent, inflight>>
  /\ queue' = Append(queue, e)
  /\ thrown' = FALSE
  /\ UNCHANGED <<timer, intervals>>

\* report(data): stamp, then send at once or enqueue.
Reporter_report(e) ==
  /\ IF immediate
       THEN /\ Reporter_send(<<e>>, "report")
            /\ queue' = queue
       ELSE /\ queue' = Append(queue, e)
            /\ UNCHANGED <<sent, inflight>>
  /\ thrown' = FALSE
  /\ UNCHANGED <<timer, intervals>>

\* batchReport() that sends the queue and keeps it.
Reporter_batchReport_keepsQueue(by) ==
  IF Len(queue) = 0
    THEN UNCHANGED <<queue, sent, inflight>>
    ELSE /\ queue' = queue
         /\ Reporter_send(queue, by)

\* batchReport(): nothing on an empty queue, else swap the queue out and send it.
Reporter_batchReport(by) ==
  IF Len(queue) = 0
    THEN UNCHANGED <<queue, sent, inflight>>
    ELSE /\ queue' = <<>>
         /\ Reporter_send(queue, by)

\* The callback of the interval startBatchTimer() set.
Reporter_timerCallback ==
  /\ Reporter_batchReport("timer")
  /\ thrown' = FALSE
  /\ UNCHANGED <<timer, intervals>>

\* destroy() that leaves the interval running.
Reporter_destroy_keepsTimer ==
  /\ UNCHANGED <<timer, intervals>>
  /\ Reporter_batchReport("destroy")
  /\ thrown' = FALSE

\* destroy(): clearInterval(this.timer) when set, then batchReport().
Reporter_destroy ==
  /\ intervals' = IF timer # 0 THEN intervals \ {timer} ELSE intervals
  /\ timer' = timer
  /\ Reporter_batchReport("destroy")
  /\ thrown' = FALSE

\* The beforeunload listener: with a non-empty queue, navigator.sendBeacon (called
\* whether or not it exists) with a reportUrl, else console. The queue is kept.
Reporter_beforeunload ==
  /\ IF Len(queue) > 0
       THEN IF reportUrl # ""
              THEN IF hasSendBeacon
                     THEN /\ sent' = Append(sent, [via |-> "beacon", data |-> queue,
                                                   by |-> "unload"])
                          /\ thrown' = FALSE
                     ELSE \* TypeError: navigator.sendBeacon is not a function
                          /\ sent' = sent
                          /\ thrown' = TRUE
              ELSE /\ sent' = Append(sent, [via |-> "console", data |-> queue,
                                            by |-> "unload"])
                   /\ thrown' = FALSE
       ELSE /\ sent' = sent
            /\ thrown' = FALSE
  /\ UNCHANGED <<queue, timer, intervals, inflight>>

\* The rejection handler that requeues in either mode.
Reporter_fetchRejected_requeuesAlways(data) ==
  /\ inflight' = inflight \ {data}
  /\ queue' = queue \o data
  /\ thrown' = FALSE
  /\ UNCHANGED <<timer, intervals, sent>>

\* The .catch() of fetch: log, and in batched mode push the payload back.
Reporter_fetchRejected(data) ==
  /\ inflight' = inflight \ {data}
  /\ queue' = IF ~immediate THEN queue \o data ELSE queue
  /\ thrown' = FALSE
  /\ UNCHANGED <<timer, intervals, sent>>

\* The promise of fetch fulfils: nothing is registered for it.
Reporter_fetchFulfilled(data) ==
  /\ inflight' = inflight \ {data}
  /\ thrown' = FALSE
  /\ UNCHANGED <<queue, timer, intervals, sent>>

\* The constructor: the options, the batch timer unless immediate, the listener.
Reporter_constructor ==
  /\ reportUrl \in {"", "https://api/report"}
  /\ immediate \in BOOLEAN
  /\ hasSendBeacon \in BOOLEAN
  /\ queue = <<>>
  /\ timer = IF ~immediate THEN IntervalHandle ELSE 0
  /\ intervals = IF ~immediate THEN {IntervalHandle} ELSE {}
  /\ sent = <<>>
  /\ inflight = {}
  /\ thrown = FALSE

(***************************************************************************)
(* History of a run of the Reporter                                        *)
(***************************************************************************)

\* The options and the host: fixed at construction.
config == <<reportUrl, immediate, hasSendBeacon>>

\* The envelopes a call hands to a transport between this state and the next.
Handed == IF Len(sent') > Len(sent) THEN Range(sent'[Len(sent')].data) ELSE {}

\* What the history records of a handler: the queue and the number of
\* transport calls it started from, and its argument.
Note(op, data) ==
  /\ last' = [op |-> op, pre |-> queue, n |-> Len(sent), data |-> data]
  /\ occurred' = IF op \in {"timer", "destroy", "unload", "fetchFail"}
                   THEN occurred \cup {op} ELSE occurred
  /\ awaitingRetry' = IF op = "fetchFail" /\ Range(data) \subseteq Range(queue')
                        THEN awaitingRetry \cup Range(data)
                        ELSE awaitingRetry \ Handed
  /\ requeues' = IF op = "fetchFail" /\ Range(data) \subseteq Range(queue')
                   THEN [e \in DOMAIN requeues |->
                           IF e \in Range(data) THEN requeues[e] + 1 ELSE requeues[e]]
                   ELSE requeues

ReporterInit ==
  /\ Reporter_constructor
  /\ reported = 0
  /\ last = [op |-> "new", pre |-> <<>>, n |-> 0, data |-> <<>>]
  /\ occurred = {}
  /\ awaitingRetry = {}
  /\ requeues = [e \in 1..MaxReports |-> 0]

\* A caller calls report(): the envelope is stamped with the call's time.
Report ==
  /\ reported < MaxReports
  /\ Len(sent) < MaxSent
  /\ reported' = reported + 1
  /\ Reporter_report(reported + 1)
  /\ Note("report", <<reported + 1>>)
  /\ UNCHANGED <<config, pageVars>>

\* The batch interval elapses while the interval is active.
TimerFires ==
  /\ timer # 0 /\ timer \in intervals
  /\ Len(sent) < MaxSent
  /\ Reporter_timerCallback
  /\ Note("timer", <<>>)
  /\ UNCHANGED <<reported, config, pageVars>>

\* A caller calls destroy().
Destroy ==
  /\ Len(sent) < MaxSent
  /\ Reporter_destroy
  /\ Note("destroy", <<>>)
  /\ UNCHANGED <<reported, config, pageVars>>

\* The page fires beforeunload (the user may still stay on the page).
BeforeUnload ==
  /\ Len(sent) < MaxSent
  /\ Reporter_beforeunload
  /\ Note("unload", <<>>)
  /\ UNCHANGED <<reported, config, pageVars>>

\* A fetch() of send() rejects.
FetchRejected ==
  \E data \in inflight :
    /\ Reporter_fetchRejected(data)
    /\ Note("fetchFail", data)
    /\ UNCHANGED <<reported, config, pageVars>>

\* A fetch() of send() fulfils.
FetchFulfilled ==
  \E data \in inflight :
    /\ Reporter_fetchFulfilled(data)
    /\ Note("fetchOk", data)
    /\ UNCHANGED <<reported, config, pageVars>>

ReporterNext ==
  \/ Report
  \/ TimerFires
  \/ Destroy
  \/ BeforeUnload
  \/ FetchRejected
  \/ FetchFulfilled

(***************************************************************************)
(* PerformanceCollector: long tasks and TBT                                *)
(*                                                                         *)
(* Times are held in tenths of a millisecond, so that Math.round has       *)
(* something to round; the values the collector stores are milliseconds.   *)
(***************************************************************************)

\* Math.round of a time in tenths of a millisecond: the nearest millisecond,
\* halves upwards.
MathRound(x) == (x + 5) \div 10

\* The durations a long-task entry may have: 48 ms, 50.4 ms, 120.6 ms.
Durations == {480, 504, 1206}

\* this.metrics with name k set to v.
Put(m, k, v) == [x \in DOMAIN m \cup {k} |-> IF x = k THEN v ELSE m[x]]

\* this.metrics.tbt || 0
TbtOrZero(m) == IF "tbt" \in DOMAIN m THEN m["tbt"] ELSE 0

\* entry.attribution of a long-task entry: absent, or an array of
\* TaskAttributionTiming entries.
NoAttribution == [isArray |-> FALSE, items |-> <<>>]

Attributions ==
  {NoAttribution,
   [isArray |-> TRUE, items |-> <<>>],
   [isArray |-> TRUE, items |-> <<[entryType |-> "taskattribution", name |-> "unknown"]>>]}

\* a || b || c on strings ("" is falsy)
FirstTruthy(a, b, c) == IF a # "" THEN a ELSE IF b # "" THEN b ELSE c

\* The extraction that synthesizes nothing.
PerformanceCollector_attribution_noFallback(entry) ==
  [i \in DOMAIN entry.attribution.items |->
     [taskType |-> FirstTruthy(entry.attribution.items[i].entryType,
                               entry.attribution.items[i].name, "unknown"),
      name |-> entry.attribution.items[i].name]]

\* The attribution of a stored task: one LongTaskAttribution per entry of the
\* host's array (its container, script and element fields are copied when
\* set); without an array, one entry of taskType unknown.
PerformanceCollector_attribution(entry) ==
  IF entry.attribution.isArray
    THEN [i \in DOMAIN entry.attribution.items |->
            [taskType |-> FirstTruthy(entry.attribution.items[i].entryType,
                                      entry.attribution.items[i].name, "unknown"),
             name |-> entry.attribution.items[i].name]]
    ELSE <<[taskType |-> "unknown", name |-> FirstTruthy(entry.name, "long-task", "")]>>

\* One entry of the callback that adds the whole duration as blocking time.
PerformanceCollector_onLongTask_wholeDuration(m, entry) ==
  IF entry.duration > 500
    THEN Put(Put(m, "longTasks",
                 Append(m["longTasks"], [startTime |-> MathRound(entry.startTime),
                                         duration |-> MathRound(entry.duration),
                                         attribution |-> PerformanceCollector_attribution(entry)])),
             "tbt", TbtOrZero(m) + MathRound(entry.duration))
    ELSE m

\* One entry of the long-task callback: an entry over 50 ms is stored with its
\* times rounded and its attribution, and Math.round(duration - 50) is added
\* to tbt.
PerformanceCollector_onLongTask(m, entry) ==
  IF entry.duration > 500
    THEN Put(Put(m, "longTasks",
                 Append(m["longTasks"], [startTime |-> MathRound(entry.startTime),
                                         duration |-> MathRound(entry.duration),
                                         attribution |-> PerformanceCollector_attribution(entry)])),
             "tbt", TbtOrZero(m) + MathRound(entry.duration - 500))
    ELSE m

\* The long-task callback: the loop over list.getEntries().
RECURSIVE PerformanceCollector_longTaskCallback(_, _)
PerformanceCollector_longTaskCallback(m, entries) ==
  IF entries = <<>>
    THEN m
    ELSE PerformanceCollector_longTaskCallback(
           PerformanceCollector_onLongTask(m, Head(entries)), Tail(entries))

\* The sum of duration - 50 over the stored tasks with duration > 50.
RECURSIVE SumStored(_)
SumStored(tasks) ==
  IF tasks = <<>>
    THEN 0
    ELSE (IF Head(tasks).duration > 50 THEN Head(tasks).duration - 50 ELSE 0)
         + SumStored(Tail(tasks))

\* updateTBT(): tbt from the stored long tasks (the sum is of whole
\* milliseconds, its Math.round changes nothing).
PerformanceCollector_updateTBT(m) ==
  IF "longTasks" \notin DOMAIN m \/ Len(m["longTasks"]) = 0
    THEN Put(m, "tbt", 0)
    ELSE Put(m, "tbt", SumStored(m["longTasks"]))

\* The entry types of the five observers.
Channels == {"paint", "largest-contentful-paint", "first-input", "layout-shift", "longtask"}

\* Whether observe({ type, buffered: true }) subscribes an observer.
Supported(type) == type \notin host.lacks

\* Whether observe({ type, buffered: true }) throws.
ObserveThrows(type) == type \in host.lacks /\ host.observeThrows

\* observeTBT(), its effect on this.metrics: nothing without
\* PerformanceObserver; else longTasks is created when missing and tbt is set
\* to 0, and after an observe() that did not throw, updateTBT().
PerformanceCollector_observeTBT(m) ==
  IF ~host.PerformanceObserver
    THEN m
    ELSE IF ObserveThrows("longtask")
      THEN Put(IF "longTasks" \in DOMAIN m THEN m ELSE Put(m, "longTasks", <<>>), "tbt", 0)
      ELSE PerformanceCollector_updateTBT(
             Put(IF "longTasks" \in DOMAIN m THEN m ELSE Put(m, "longTasks", <<>>), "tbt", 0))

\* observeTBT(), its observer: none without PerformanceObserver; else a new
\* one, subscribed with buffered: true where the host has long tasks.
PerformanceCollector_subscribeTBT ==
  IF ~host.PerformanceObserver
    THEN UNCHANGED <<longTaskObserver, observerQueue>>
    ELSE /\ longTaskObserver' = IF Supported("longtask") THEN "observing" ELSE "unsubscribed"
         /\ observerQueue' = IF Supported("longtask") THEN timeline ELSE <<>>

(***************************************************************************)
(* PerformanceCollector: layout shifts (CLS)                               *)
(*                                                                         *)
(* A shift's startTime is in milliseconds. Its value is in units of        *)
(* 0.0001, and metrics.cls, which the collector rounds to three decimals,  *)
(* is in thousandths.                                                      *)
(***************************************************************************)

\* Math.round(clsValue * 1000) / 1000, in thousandths.
RoundThousandths(v) == (v + 5) \div 10

\* One entry of the callback that merges on the 5000 window alone.
PerformanceCollector_onLayoutShift_noGapTest(s, entry) ==
  IF entry.hadRecentInput
    THEN s
    ELSE IF /\ s.value # 0
            /\ Len(s.entries) > 0
            /\ entry.startTime - s.entries[1].startTime < 5000
           THEN [value |-> s.value + entry.value, entries |-> Append(s.entries, entry)]
           ELSE [value |-> entry.value, entries |-> <<entry>>]

\* One entry of the layout-shift callback, on the locals s = (clsValue,
\* clsEntries): a shift with recent input is skipped; another one joins the
\* session when clsValue is truthy, the session has a member, and the shift
\* starts less than 1000 after its last and less than 5000 after its first
\* member; else it starts a session of its own.
PerformanceCollector_onLayoutShift(s, entry) ==
  IF entry.hadRecentInput
    THEN s
    ELSE IF /\ s.value # 0
            /\ Len(s.entries) > 0
            /\ entry.startTime - s.entries[Len(s.entries)].startTime < 1000
            /\ entry.startTime - s.entries[1].startTime < 5000
           THEN [value |-> s.value + entry.value, entries |-> Append(s.entries, entry)]
           ELSE [value |-> entry.value, entries |-> <<entry>>]

\* The layout-shift callback's loop over list.getEntries().
RECURSIVE PerformanceCollector_layoutShiftLoop(_, _)
PerformanceCollector_layoutShiftLoop(s, entries) ==
  IF entries = <<>>
    THEN s
    ELSE PerformanceCollector_layoutShiftLoop(
           PerformanceCollector_onLayoutShift(s, Head(entries)), Tail(entries))

\* observeCLS(): nothing without PerformanceObserver; else fresh locals and a
\* new observer, subscribed with buffered: true where the host has layout
\* shifts.
PerformanceCollector_observeCLS ==
  IF ~host.PerformanceObserver
    THEN UNCHANGED <<clsValue, clsEntries, clsObserver, clsQueue>>
    ELSE /\ clsValue' = 0
         /\ clsEntries' = <<>>
         /\ clsObserver' = IF Supported("layout-shift") THEN "observing" ELSE "unsubscribed"
         /\ clsQueue' = IF Supported("layout-shift") THEN shiftTimeline ELSE <<>>

(***************************************************************************)
(* PerformanceCollector: largest contentful paint (LCP)                    *)
(*                                                                         *)
(* Times are in tenths of a millisecond, metrics.lcp is in milliseconds.   *)
(* An entry's element is the path getElementPath gives for it, or "null".  *)
(***************************************************************************)

\* The selection that takes loadTime first.
PerformanceCollector_lcpValue_loadTimeFirst(entry) ==
  IF entry.loadTime > 0 THEN entry.loadTime
  ELSE IF entry.renderTime > 0 THEN entry.renderTime
  ELSE entry.startTime

\* lcpValue: renderTime when > 0, else loadTime when > 0, else startTime (the
\* host defines renderTime and loadTime on every candidate, 0 when unknown).
PerformanceCollector_lcpValue(entry) ==
  IF entry.renderTime > 0 THEN entry.renderTime
  ELSE IF entry.loadTime > 0 THEN entry.loadTime
  ELSE entry.startTime

\* The LCP callback, and collectFinalLCP(), on a non-empty list of
\* candidates: the last one is taken; when its lcpValue is > 0, lcp is set to
\* the rounded value and, when it has an element, lcpElement to its path.
PerformanceCollector_onLcp(m, entries) ==
  LET lastEntry == entries[Len(entries)]
      lcpValue == PerformanceCollector_lcpValue(lastEntry)
  IN  IF lcpValue > 0
        THEN IF lastEntry.element # "null"
               THEN Put(Put(m, "lcp", MathRound(lcpValue)), "lcpElement", lastEntry.element)
               ELSE Put(m, "lcp", MathRound(lcpValue))
        ELSE m

\* collectFinalLCP(): the same on performance.getEntriesByType(...), which
\* is empty in a host that hands the candidates to observers only.
PerformanceCollector_collectFinalLCP(m) ==
  IF lcpExposed /\ lcpTimeline # <<>>
    THEN PerformanceCollector_onLcp(m, lcpTimeline)
    ELSE m

\* observeLCP(): nothing without PerformanceObserver; else a new observer,
\* subscribed with buffered: true where the host has LCP candidates.
PerformanceCollector_observeLCP ==
  IF ~host.PerformanceObserver
    THEN UNCHANGED <<lcpObserver, lcpQueue>>
    ELSE /\ lcpObserver' = IF Supported("largest-contentful-paint")
                             THEN "observing" ELSE "unsubscribed"
         /\ lcpQueue' = IF Supported("largest-contentful-paint") THEN lcpTimeline ELSE <<>>

(***************************************************************************)
(* PerformanceCollector: first contentful paint (FCP), first input (FID)   *)
(*                                                                         *)
(* Times are in tenths of a millisecond, metrics.fcp and metrics.fid are   *)
(* in milliseconds.                                                        *)
(***************************************************************************)

\* The forEach over paint entries: first-contentful-paint sets fcp.
RECURSIVE PerformanceCollector_readFCP(_, _)
PerformanceCollector_readFCP(m, entries) ==
  IF entries = <<>>
    THEN m
    ELSE PerformanceCollector_readFCP(
           IF Head(entries).name = "first-contentful-paint"
             THEN Put(m, "fcp", MathRound(Head(entries).startTime))
             ELSE m,
           Tail(entries))

\* observeFCP(): fcp is read from the buffered paint entries; when it is
\* still undefined a new observer is subscribed with buffered: true.
PerformanceCollector_observeFCP ==
  IF \/ "fcp" \in DOMAIN PerformanceCollector_readFCP(metrics, paintTimeline)
     \/ ~host.PerformanceObserver
    THEN UNCHANGED <<fcpObserver, fcpQueue>>
    ELSE /\ fcpObserver' = IF Supported("paint") THEN "observing" ELSE "unsubscribed"
         /\ fcpQueue' = IF Supported("paint") THEN paintTimeline ELSE <<>>

\* The forEach that stores the difference as it is, in tenths of a millisecond.
RECURSIVE PerformanceCollector_readFID_unrounded(_, _)
PerformanceCollector_readFID_unrounded(m, entries) ==
  IF entries = <<>>
    THEN m
    ELSE PerformanceCollector_readFID_unrounded(
           IF Head(entries).processingStart # 0 /\ Head(entries).startTime # 0
             THEN Put(m, "fid", Head(entries).processingStart - Head(entries).startTime)
             ELSE m,
           Tail(entries))

\* The forEach over first-input entries: an entry with processingStart and
\* startTime sets fid.
RECURSIVE PerformanceCollector_readFID(_, _)
PerformanceCollector_readFID(m, entries) ==
  IF entries = <<>>
    THEN m
    ELSE PerformanceCollector_readFID(
           IF Head(entries).processingStart # 0 /\ Head(entries).startTime # 0
             THEN Put(m, "fid", MathRound(Head(entries).processingStart
                                          - Head(entries).startTime))
             ELSE m,
           Tail(entries))

\* observeFID(): nothing without PerformanceObserver; else a new observer,
\* subscribed with buffered: true where the host has first-input entries.
PerformanceCollector_observeFID ==
  IF ~host.PerformanceObserver
    THEN UNCHANGED <<fidObserver, fidQueue>>
    ELSE /\ fidObserver' = IF Supported("first-input") THEN "observing" ELSE "unsubscribed"
         /\ fidQueue' = IF Supported("first-input") THEN inputTimeline ELSE <<>>

(***************************************************************************)
(* PerformanceCollector: init(), destroy(), collect()                      *)
(***************************************************************************)

\* init(): nothing when initialized; else the observers are created and
\* subscribed with buffered: true, which queues every buffered entry for the
\* new observer's callback.
PerformanceCollector_init ==
  IF initialized
    THEN UNCHANGED <<metrics, initialized, longTaskObserver, observerQueue,
                     clsObserver, clsValue, clsEntries, clsQueue,
                     lcpObserver, lcpQueue, fcpObserver, fcpQueue,
                     fidObserver, fidQueue>>
    ELSE /\ PerformanceCollector_observeFCP
         /\ PerformanceCollector_observeLCP
         /\ PerformanceCollector_observeFID
         /\ PerformanceCollector_observeCLS
         /\ metrics' = PerformanceCollector_observeTBT(
                         PerformanceCollector_readFCP(metrics, paintTimeline))
         /\ PerformanceCollector_subscribeTBT
         /\ initialized' = TRUE

\* observer.disconnect() when the observer exists.
Disconnected(observer) == IF observer = "undefined" THEN "undefined" ELSE "disconnected"

\* destroy(): the observers are disconnected (which drops what is queued for
\* them), the metrics and the callbacks' locals are kept.
PerformanceCollector_destroy ==
  /\ lcpObserver' = Disconnected(lcpObserver)
  /\ lcpQueue' = <<>>
  /\ fidObserver' = Disconnected(fidObserver)
  /\ fidQueue' = <<>>
  /\ clsObserver' = Disconnected(clsObserver)
  /\ clsQueue' = <<>>
  /\ fcpObserver' = Disconnected(fcpObserver)
  /\ fcpQueue' = <<>>
  /\ longTaskObserver' = Disconnected(longTaskObserver)
  /\ observerQueue' = <<>>
  /\ initialized' = FALSE
  /\ metrics' = metrics
  /\ UNCHANGED <<clsValue, clsEntries>>

\* { ...this.metrics }: the fields are copied, and the copy's longTasks is
\* the array metrics.longTasks itself.
ShallowCopy(m) == [fields |-> m, shared |-> DOMAIN m \cap {"longTasks"}]

\* What a caller reads in a snapshot now: its own fields, and in a shared
\* field what the collector's array holds now.
ReadSnapshot(snapshot) ==
  [k \in DOMAIN snapshot.fields |->
     IF k \in snapshot.shared THEN metrics[k] ELSE snapshot.fields[k]]

\* The navigation of the page as the host has timed it, in tenths of a
\* millisecond since its start. requestStart is 0 for a page from the cache.
NavigationEntry(cached) ==
  [startTime |-> 0, fetchStart |-> 12,
   domainLookupStart |-> 50, domainLookupEnd |-> 254,
   connectStart |-> 254, connectEnd |-> 709,
   requestStart |-> IF cached THEN 0 ELSE 716,
   responseStart |-> 1721, responseEnd |-> 2025,
   domInteractive |-> 5000, domContentLoadedEventEnd |-> 6005,
   loadEventEnd |-> 9004]

\* performance.timing of the same navigation: whole milliseconds, counted
\* from 1970.
navigationStart == 1700000

PerformanceTiming ==
  [navigationStart |-> navigationStart, fetchStart |-> navigationStart + 1,
   domainLookupStart |-> navigationStart + 5, domainLookupEnd |-> navigationStart + 25,
   connectStart |-> navigationStart + 25, connectEnd |-> navigationStart + 71,
   requestStart |-> navigationStart + 72,
   responseStart |-> navigationStart + 172, responseEnd |-> navigationStart + 203,
   domInteractive |-> navigationStart + 500,
   domContentLoadedEventEnd |-> navigationStart + 601,
   loadEventEnd |-> navigationStart + 900]

\* The names of the navigation-phase timings.
NavigationFields == {"dns", "tcp", "ttfb", "request", "parse", "domContentLoaded", "load"}

\* The hosts of a navigation: performance.getEntriesByType is missing,
\* returns no navigation entry, returns the entry, or throws; and
\* performance.timing exists or not.
NavigationHosts ==
  [getEntriesByType : {"missing", "empty", "entry", "throws"},
   timing : BOOLEAN, cached : BOOLEAN]

\* collectNavigationTimingLegacy(): nothing without performance.timing; else
\* the differences of its fields.
PerformanceCollector_collectNavigationTimingLegacy(m) ==
  IF ~navigation.timing
    THEN m
    ELSE LET timing == PerformanceTiming IN
         [k \in DOMAIN m \cup NavigationFields |->
            CASE k = "dns" -> timing.domainLookupEnd - timing.domainLookupStart
              [] k = "tcp" -> timing.connectEnd - timing.connectStart
              [] k = "ttfb" -> timing.responseStart - timing.navigationStart
              [] k = "request" -> timing.responseEnd - timing.responseStart
              [] k = "parse" -> timing.domInteractive - timing.responseEnd
              [] k = "domContentLoaded" ->
                   timing.domContentLoadedEventEnd - timing.navigationStart
              [] k = "load" -> timing.loadEventEnd - timing.navigationStart
              [] OTHER -> m[k]]

\* collectNavigationTiming(): nothing without getEntriesByType and nothing
\* without a navigation entry; with one, the rounded differences of its
\* fields; collectNavigationTimingLegacy() when the host throws.
PerformanceCollector_collectNavigationTiming(m) ==
  CASE navigation.getEntriesByType = "missing" -> m
    [] navigation.getEntriesByType = "empty" -> m
    [] navigation.getEntriesByType = "throws" ->
         PerformanceCollector_collectNavigationTimingLegacy(m)
    [] navigation.getEntriesByType = "entry" ->
         LET entry == NavigationEntry(navigation.cached) IN
         [k \in DOMAIN m \cup NavigationFields |->
            CASE k = "dns" -> MathRound(entry.domainLookupEnd - entry.domainLookupStart)
              [] k = "tcp" -> MathRound(entry.connectEnd - entry.connectStart)
              [] k = "ttfb" ->
                   MathRound(entry.responseStart
                               - (IF entry.requestStart # 0 THEN entry.requestStart
                                                            ELSE entry.fetchStart))
              [] k = "request" -> MathRound(entry.responseEnd - entry.responseStart)
              [] k = "parse" -> MathRound(entry.domInteractive - entry.responseEnd)
              [] k = "domContentLoaded" ->
                   MathRound(entry.domContentLoadedEventEnd - entry.startTime)
              [] k = "load" -> MathRound(entry.loadEventEnd - entry.startTime)
              [] OTHER -> m[k]]

\* collect(): this.metrics after collectNavigationTiming() and
\* collectFinalLCP() (no long-task field is touched); a shallow copy of it
\* is returned.
PerformanceCollector_collect ==
  PerformanceCollector_collectFinalLCP(PerformanceCollector_collectNavigationTiming(metrics))

CollectorInit ==
  /\ metrics = << >>
  /\ initialized = FALSE
  /\ longTaskObserver = "undefined"
  /\ timeline = <<>>
  /\ observerQueue = <<>>
  /\ observations = <<>>
  /\ subscriptions = 0
  /\ snapshots = <<>>
  /\ clsObserver = "undefined"
  /\ clsValue = 0
  /\ clsEntries = <<>>
  /\ shiftTimeline = <<>>
  /\ clsQueue = <<>>
  /\ clsDelivered = <<>>
  /\ lcpObserver = "undefined"
  /\ lcpExposed \in BOOLEAN
  /\ navigation \in NavigationHosts
  /\ lcpTimeline = <<>>
  /\ lcpQueue = <<>>
  /\ lcpFired = <<>>
  /\ fcpObserver = "undefined"
  /\ fcpQueue = <<>>
  /\ paintTimeline = <<>>
  /\ fidObserver = "undefined"
  /\ fidQueue = <<>>
  /\ inputTimeline = <<>>

\* A page whose navigation the host has not timed: collect() finds no
\* navigation entry and no performance.timing.
NavigationIdle == navigation = [getEntriesByType |-> "empty", timing |-> FALSE, cached |-> FALSE]

\* A host with every observation channel.
AllChannels == [PerformanceObserver |-> TRUE, lacks |-> {}, observeThrows |-> FALSE]

HostFull == host = AllChannels /\ NavigationIdle

\* A caller that drops what collect() returns.
CallerIdle == held = [keeps |-> FALSE, snapshot |-> <<>>]

\* The collector as the Reporter's runs leave it.
CollectorIdle == CollectorInit /\ ~lcpExposed /\ CallerIdle /\ HostFull

\* The page runs a task of duration d: the host adds an entry to the timeline
\* and queues it for a connected observer.
LongTaskOccurs ==
  \E d \in Durations, a \in Attributions :
    LET entry == [name |-> "self", startTime |-> 1000 * (Len(timeline) + 1) + 4,
                  duration |-> d, attribution |-> a] IN
    /\ d # 1206 => a = NoAttribution
    /\ Supported("longtask")
    /\ Len(timeline) < MaxTasks
    /\ timeline' = Append(timeline, entry)
    /\ observerQueue' = IF longTaskObserver = "observing"
                          THEN Append(observerQueue, entry) ELSE observerQueue
    /\ UNCHANGED <<metrics, initialized, longTaskObserver, observations,
                   subscriptions, snapshots, clsVars, lcpVars, otherVars>>

\* The host runs the long-task observer's callback with what is queued.
LongTaskCallback ==
  /\ longTaskObserver = "observing"
  /\ observerQueue # <<>>
  /\ metrics' = PerformanceCollector_longTaskCallback(metrics, observerQueue)
  /\ observations' = observations \o observerQueue
  /\ observerQueue' = <<>>
  /\ snapshots' = <<>>
  /\ UNCHANGED <<initialized, longTaskObserver, timeline, subscriptions,
                 clsVars, lcpVars, otherVars>>

\* The layout shifts a page may have: their start times, and their values
\* (0, 0.0004, 0.05, 0.1 and 0.2).
ShiftTimes == {0, 500, 4800, 6000}
ShiftValues == {0, 4, 500, 1000, 2000}

\* The page's layout shifts: the host buffers the entry and queues it for a
\* connected observer.
LayoutShiftOccurs ==
  \E t \in ShiftTimes, v \in ShiftValues, h \in BOOLEAN :
    LET entry == [startTime |-> t, value |-> v, hadRecentInput |-> h] IN
    /\ Supported("layout-shift")
    /\ Len(shiftTimeline) < MaxShifts
    /\ \A i \in DOMAIN shiftTimeline : shiftTimeline[i].startTime < t
    /\ shiftTimeline' = Append(shiftTimeline, entry)
    /\ clsQueue' = IF clsObserver = "observing" THEN Append(clsQueue, entry) ELSE clsQueue
    /\ UNCHANGED <<clsObserver, clsValue, clsEntries, clsDelivered,
                   collectorVars, lcpVars, otherVars>>

\* The host runs the layout-shift observer's callback with what is queued:
\* the loop, then metrics.cls is set to the rounded clsValue.
LayoutShiftCallback ==
  /\ clsObserver = "observing"
  /\ clsQueue # <<>>
  /\ LET s == PerformanceCollector_layoutShiftLoop(
                [value |-> clsValue, entries |-> clsEntries], clsQueue) IN
       /\ clsValue' = s.value
       /\ clsEntries' = s.entries
       /\ metrics' = Put(metrics, "cls", RoundThousandths(s.value))
  /\ clsDelivered' = clsDelivered \o clsQueue
  /\ clsQueue' = <<>>
  /\ snapshots' = <<>>
  /\ UNCHANGED <<clsObserver, shiftTimeline, initialized, longTaskObserver, timeline,
                 observerQueue, observations, subscriptions, lcpVars, otherVars>>

\* The renderTime, loadTime and startTime of the LCP candidates a page may
\* have: 1200 ms, 1200.6 ms, 900 ms, 1500 ms, 300 ms, or 0 where the host does
\* not tell.
LcpTimes ==
  {<<12000, 15000, 3000>>, <<0, 9000, 3000>>, <<0, 0, 3000>>, <<12006, 0, 0>>,
   <<0, 0, 0>>}

\* The candidates, with or without an element.
LcpCandidates ==
  {[renderTime |-> t[1], loadTime |-> t[2], startTime |-> t[3], element |-> el] :
     t \in LcpTimes, el \in {"null", "html > body > img.hero"}}

\* The largest element changes: the host buffers the candidate and queues it
\* for a connected observer.
LcpCandidateOccurs ==
  \E entry \in LcpCandidates :
    /\ Supported("largest-contentful-paint")
    /\ Len(lcpTimeline) < MaxCandidates
    /\ lcpTimeline' = Append(lcpTimeline, entry)
    /\ lcpQueue' = IF lcpObserver = "observing" THEN Append(lcpQueue, entry) ELSE lcpQueue
    /\ UNCHANGED <<lcpObserver, lcpExposed, lcpFired, collectorVars, clsVars, otherVars>>

\* The host runs the LCP observer's callback with what is queued.
LcpCallback ==
  /\ lcpObserver = "observing"
  /\ lcpQueue # <<>>
  /\ metrics' = PerformanceCollector_onLcp(metrics, lcpQueue)
  /\ lcpFired' = <<[entries |-> lcpQueue, before |-> metrics]>>
  /\ lcpQueue' = <<>>
  /\ snapshots' = <<>>
  /\ UNCHANGED <<lcpObserver, lcpExposed, lcpTimeline, initialized, longTaskObserver,
                 timeline, observerQueue, observations, subscriptions, clsVars,
                 otherVars>>

\* A caller calls init().
CollectorInitCall ==
  /\ initialized \/ subscriptions < MaxSubscriptions
  /\ PerformanceCollector_init
  /\ subscriptions' = IF initialized THEN subscriptions ELSE subscriptions + 1
  /\ clsDelivered' = IF initialized THEN clsDelivered ELSE <<>>
  /\ UNCHANGED <<timeline, observations, snapshots, shiftTimeline,
                 lcpExposed, lcpTimeline, lcpFired, paintTimeline, inputTimeline,
                 held, outsideVars>>

\* A caller calls destroy().
CollectorDestroyCall ==
  /\ PerformanceCollector_destroy
  /\ UNCHANGED <<timeline, observations, subscriptions, snapshots, shiftTimeline,
                 clsDelivered, lcpExposed, lcpTimeline, lcpFired, paintTimeline,
                 inputTimeline, held, outsideVars>>

\* A caller calls collect().
CollectorCollectCall ==
  /\ metrics' = PerformanceCollector_collect
  /\ snapshots' = IF Len(snapshots) < 2
                    THEN Append(snapshots, PerformanceCollector_collect)
                    ELSE <<snapshots[2], PerformanceCollector_collect>>
  /\ lcpFired' = <<>>
  /\ held' = IF held.keeps
               THEN [held EXCEPT !.snapshot = <<ShallowCopy(PerformanceCollector_collect)>>]
               ELSE held
  /\ UNCHANGED <<initialized, longTaskObserver, timeline, observerQueue,
                 observations, subscriptions, clsVars, lcpObserver, lcpExposed,
                 lcpTimeline, lcpQueue, paintVars, fidVars, outsideVars>>

\* The task a caller adds to the long tasks of a snapshot it holds.
CallerTask == [startTime |-> 0, duration |-> 0, attribution |-> <<>>]

\* The caller changes the snapshot it holds: snapshot.tbt = 0 and
\* snapshot.longTasks.push(task). held keeps what the caller has written;
\* the push goes to the array the snapshot shares with this.metrics.
CallerEditsSnapshot ==
  /\ held.snapshot # <<>>
  /\ "longTasks" \in held.snapshot[1].shared
  /\ CallerTask \notin Range(metrics["longTasks"])
  /\ LET own == held.snapshot[1].fields IN
       held' = [held EXCEPT !.snapshot =
                 <<[fields |-> Put(Put(own, "tbt", 0), "longTasks",
                                   Append(own["longTasks"], CallerTask)),
                    shared |-> held.snapshot[1].shared]>>]
  /\ metrics' = Put(metrics, "longTasks", Append(metrics["longTasks"], CallerTask))
  /\ UNCHANGED <<initialized, longTaskObserver, timeline, observerQueue, observations,
                 subscriptions, snapshots, clsVars, lcpVars, paintVars, fidVars,
                 outsideVars>>

\* The page's paints: first-paint at 800.4 ms, first-contentful-paint at
\* 900.6 ms.
PaintEntries ==
  <<[name |-> "first-paint", startTime |-> 8004],
    [name |-> "first-contentful-paint", startTime |-> 9006]>>

\* The page paints: the host buffers the entry and queues it for a connected
\* observer.
PaintOccurs ==
  /\ Supported("paint")
  /\ Len(paintTimeline) < Len(PaintEntries)
  /\ paintTimeline' = Append(paintTimeline, PaintEntries[Len(paintTimeline) + 1])
  /\ fcpQueue' = IF fcpObserver = "observing"
                   THEN Append(fcpQueue, PaintEntries[Len(paintTimeline) + 1])
                   ELSE fcpQueue
  /\ UNCHANGED <<fcpObserver, collectorVars, clsVars, lcpVars, fidVars, held,
                 outsideVars>>

\* The host runs the paint observer's callback with what is queued: the
\* observer disconnects itself on first-contentful-paint.
FcpCallback ==
  /\ fcpObserver = "observing"
  /\ fcpQueue # <<>>
  /\ metrics' = PerformanceCollector_readFCP(metrics, fcpQueue)
  /\ fcpObserver' = IF \E i \in DOMAIN fcpQueue : fcpQueue[i].name = "first-contentful-paint"
                      THEN "disconnected" ELSE fcpObserver
  /\ fcpQueue' = <<>>
  /\ snapshots' = <<>>
  /\ UNCHANGED <<paintTimeline, initialized, longTaskObserver, timeline, observerQueue,
                 observations, subscriptions, clsVars, lcpVars, fidVars, held,
                 outsideVars>>

\* The first input of the page: processed 16.4 ms after it started at 2000 ms.
FirstInputs == {[startTime |-> 20000, processingStart |-> 20164]}

\* The user's first input: the host buffers the entry and queues it for a
\* connected observer.
FirstInputOccurs ==
  \E entry \in FirstInputs :
    /\ Supported("first-input")
    /\ inputTimeline = <<>>
    /\ inputTimeline' = <<entry>>
    /\ fidQueue' = IF fidObserver = "observing" THEN Append(fidQueue, entry) ELSE fidQueue
    /\ UNCHANGED <<fidObserver, collectorVars, clsVars, lcpVars, paintVars, held,
                   outsideVars>>

\* The host runs the first-input observer's callback with what is queued: the
\* observer disconnects itself on an entry that sets fid.
FidCallback ==
  /\ fidObserver = "observing"
  /\ fidQueue # <<>>
  /\ metrics' = PerformanceCollector_readFID(metrics, fidQueue)
  /\ fidObserver' = IF \E i \in DOMAIN fidQueue :
                          fidQueue[i].processingStart # 0 /\ fidQueue[i].startTime # 0
                      THEN "disconnected" ELSE fidObserver
  /\ fidQueue' = <<>>
  /\ snapshots' = <<>>
  /\ UNCHANGED <<inputTimeline, initialized, longTaskObserver, timeline, observerQueue,
                 observations, subscriptions, clsVars, lcpVars, paintVars, held,
                 outsideVars>>

\* The first inputs a page may have: processed 16.4 ms, 16.5 ms or 120 ms
\* after they started, or in the same tenth of a millisecond.
FidInputs ==
  {[startTime |-> 20000, processingStart |-> 20164],
   [startTime |-> 20000, processingStart |-> 20165],
   [startTime |-> 7003, processingStart |-> 8203],
   [startTime |-> 7003, processingStart |-> 7003]}

\* The user's first input, one of these: the host buffers the entry and
\* queues it for a connected observer.
FidInputOccurs ==
  \E entry \in FidInputs :
    /\ Supported("first-input")
    /\ inputTimeline = <<>>
    /\ inputTimeline' = <<entry>>
    /\ fidQueue' = IF fidObserver = "observing" THEN Append(fidQueue, entry) ELSE fidQueue
    /\ UNCHANGED <<fidObserver, collectorVars, clsVars, lcpVars, paintVars, held,
                   outsideVars>>

FidNext ==
  \/ FidInputOccurs
  \/ FidCallback
  \/ PaintOccurs
  \/ FcpCallback
  \/ CollectorInitCall
  \/ CollectorDestroyCall
  \/ CollectorCollectCall

CollectorNext ==
  \/ LongTaskOccurs
  \/ LongTaskCallback
  \/ CollectorInitCall
  \/ CollectorDestroyCall
  \/ CollectorCollectCall

ClsNext ==
  \/ LayoutShiftOccurs
  \/ LayoutShiftCallback
  \/ CollectorInitCall
  \/ CollectorDestroyCall

LcpNext ==
  \/ LcpCandidateOccurs
  \/ LcpCallback
  \/ CollectorInitCall
  \/ CollectorDestroyCall

(***************************************************************************)
(* RenderMonitor                                                           *)
(*                                                                         *)
(* Frame times are in hundredths of a millisecond. A reflow or repaint     *)
(* record holds element, elementPath, reason, duration and droppedFrames   *)
(* (its timestamp and stackTrace are not held). The elements keep their id *)
(* and classes, so each has one path.                                      *)
(***************************************************************************)

\* The cap of recordPotentialReflow.
MAX_REFLOW_RECORDS == 1000

\* The elements of the page; "undefined" is no element.
Elements == {"e1", "e2", "e3"}

\* getElementPath(element): two list items of one class have one path, and
\* so have the rows of a table.
getElementPath(element) ==
  CASE element = "e1" -> "html > body > div#app"
    [] element = "e2" -> "html > body > ul > li.item"
    [] element = "e3" -> "html > body > ul > li.item"
    [] element = "e4" -> "html > body > main"
    [] element = "e5" -> "html > body > main > img.hero"
    [] element = "e6" -> "html > body > footer"
    [] OTHER -> "html > body > table > tr.row"

\* A ReflowInfo or RepaintInfo.
RenderInfo(element, reason, duration, droppedFrames) ==
  [element |-> element,
   elementPath |-> IF element = "undefined" THEN "" ELSE getElementPath(element),
   reason |-> reason, duration |-> duration, droppedFrames |-> droppedFrames]

\* n copies of x.
Repeat(x, n) == [i \in 1..n |-> x]

\* s without its i-th element.
RemoveAt(s, i) == SubSeq(s, 1, i - 1) \o SubSeq(s, i + 1, Len(s))

\* Array.prototype.sort((a, b) => b.count - a.count): by count, largest
\* first, equal counts in their old order.
RECURSIVE InsertByCount(_, _)
InsertByCount(x, sorted) ==
  IF sorted = <<>>
    THEN <<x>>
    ELSE IF Head(sorted).count >= x.count
           THEN <<Head(sorted)>> \o InsertByCount(x, Tail(sorted))
           ELSE <<x>> \o sorted

RECURSIVE SortByCount(_)
SortByCount(items) ==
  IF items = <<>>
    THEN <<>>
    ELSE InsertByCount(items[Len(items)], SortByCount(SubSeq(items, 1, Len(items) - 1)))

\* suspiciousElements.get(target) || 0
SuspicionOf(suspicious, target) ==
  IF \E i \in DOMAIN suspicious : suspicious[i].element = target
    THEN (CHOOSE x \in Range(suspicious) : x.element = target).count
    ELSE 0

\* suspiciousElements.set(target, count): a known key keeps its place.
SetSuspicion(suspicious, target, count) ==
  IF \E i \in DOMAIN suspicious : suspicious[i].element = target
    THEN [i \in DOMAIN suspicious |->
            IF suspicious[i].element = target
              THEN [element |-> target, count |-> count] ELSE suspicious[i]]
    ELSE Append(suspicious, [element |-> target, count |-> count])

\* suspiciousElements.delete(target)
DeleteSuspicion(suspicious, target) ==
  SelectSeq(suspicious, LAMBDA x : x.element # target)

\* recordReflow(entry) for each of n measure entries named reflow.
RenderMonitor_recordReflow(rs, n) ==
  rs \o Repeat(RenderInfo("undefined", "measured", 100, 0), n)

\* recordRepaint(entry) for each of n measure entries named repaint.
RenderMonitor_recordRepaint(rs, n) ==
  rs \o Repeat(RenderInfo("undefined", "measured", 100, 0), n)

\* recordPotentialReflow(deltaTime, droppedFrames): nothing at the cap; else
\* one frame_drop record for each of the (at most 5) most suspicious elements.
RenderMonitor_recordPotentialReflow(rs, deltaTime, droppedFrames) ==
  IF Len(rs) >= MAX_REFLOW_RECORDS
    THEN rs
    ELSE LET sorted == SortByCount(suspiciousElements)
             top == SubSeq(sorted, 1, IF Len(sorted) < 5 THEN Len(sorted) ELSE 5)
         IN  rs \o [i \in 1..Len(top) |->
                      RenderInfo(top[i].element, "frame_drop", deltaTime, droppedFrames)]

\* isReflowTriggeringAttribute(attrName) on the names the observer is
\* subscribed to: whether the name contains one of the listed properties.
RenderMonitor_isReflowTriggeringAttribute(attrName) ==
  attrName \in {"width", "height", "display", "position"}

\* `attribute_change:${attrName}`
AttributeChange(attrName) ==
  CASE attrName = "width" -> "attribute_change:width"
    [] attrName = "height" -> "attribute_change:height"
    [] attrName = "display" -> "attribute_change:display"
    [] attrName = "position" -> "attribute_change:position"
    [] attrName = "style" -> "attribute_change:style"
    [] attrName = "class" -> "attribute_change:class"

\* recordReflowFromMutation(element, attrName)
RenderMonitor_recordReflowFromMutation(rs, element, attrName) ==
  Append(rs, RenderInfo(element, AttributeChange(attrName), 0, 0))

\* One record of the mutation callback, on st = (suspicious, timers, reflows):
\* the target's count grows, a 5000 ms timeout is set, and a change of a
\* reflow-triggering attribute is recorded.
RenderMonitor_onMutation(st, mutation) ==
  [suspicious |-> SetSuspicion(st.suspicious, mutation.target,
                               SuspicionOf(st.suspicious, mutation.target) + 1),
   timers |-> Append(st.timers, mutation.target),
   reflows |-> IF /\ mutation.type = "attributes"
                  /\ RenderMonitor_isReflowTriggeringAttribute(mutation.attributeName)
                 THEN RenderMonitor_recordReflowFromMutation(
                        st.reflows, mutation.target, mutation.attributeName)
                 ELSE st.reflows]

\* The mutation callback: mutations.forEach(...).
RECURSIVE RenderMonitor_mutationCallback(_, _)
RenderMonitor_mutationCallback(st, mutations) ==
  IF mutations = <<>>
    THEN st
    ELSE RenderMonitor_mutationCallback(
           RenderMonitor_onMutation(st, Head(mutations)), Tail(mutations))

\* The counting of getFrequentReflowElements: one entry per elementPath, in
\* the order of first occurrence, for the reflows with an element and a path.
RECURSIVE ElementCounts(_, _)
ElementCounts(rs, counts) ==
  IF rs = <<>>
    THEN counts
    ELSE LET reflow == Head(rs) IN
         IF reflow.element # "undefined" /\ reflow.elementPath # ""
           THEN IF \E i \in DOMAIN counts : counts[i].path = reflow.elementPath
                  THEN ElementCounts(Tail(rs),
                         [i \in DOMAIN counts |->
                            IF counts[i].path = reflow.elementPath
                              THEN [counts[i] EXCEPT !.count = @ + 1] ELSE counts[i]])
                  ELSE ElementCounts(Tail(rs),
                         Append(counts, [element |-> reflow.element,
                                         path |-> reflow.elementPath, count |-> 1]))
           ELSE ElementCounts(Tail(rs), counts)

\* The query that leaves out the paths with exactly threshold reflows.
RenderMonitor_getFrequentReflowElements_above(threshold) ==
  SortByCount(SelectSeq(ElementCounts(reflows, <<>>), LAMBDA x : x.count > threshold))

\* getFrequentReflowElements(threshold): the entries with count >= threshold,
\* sorted by count, largest first.
RenderMonitor_getFrequentReflowElements(threshold) ==
  SortByCount(SelectSeq(ElementCounts(reflows, <<>>), LAMBDA x : x.count >= threshold))

\* The callback that goes on when the monitor is stopped.
RenderMonitor_checkFrame_unguarded(i, deltaTime) ==
  LET droppedFrames == IF deltaTime > 2000
                         THEN frameLoops[i] + (deltaTime - 1667) \div 1667
                         ELSE 0
  IN  /\ reflows' = IF deltaTime > 2000 /\ droppedFrames > 2
                      THEN RenderMonitor_recordPotentialReflow(reflows, deltaTime, droppedFrames)
                      ELSE reflows
      /\ frameLoops' = [frameLoops EXCEPT ![i] = droppedFrames]

\* The callback that counts the frames with a delta over 20 ms.
RenderMonitor_checkFrame_perSlowFrame(i, deltaTime) ==
  IF ~isMonitoring
    THEN /\ frameLoops' = RemoveAt(frameLoops, i)
         /\ reflows' = reflows
    ELSE LET droppedFrames == IF deltaTime > 2000 THEN frameLoops[i] + 1 ELSE 0
         IN  /\ reflows' = IF deltaTime > 2000 /\ droppedFrames > 2
                             THEN RenderMonitor_recordPotentialReflow(
                                    reflows, deltaTime, droppedFrames)
                             ELSE reflows
             /\ frameLoops' = [frameLoops EXCEPT ![i] = droppedFrames]

\* checkFrame(currentTime) of the i-th frame loop, deltaTime after its last
\* frame: when the monitor is stopped the loop ends; else a delta over 20 ms
\* adds floor((deltaTime - 16.67) / 16.67) to droppedFrames and, when that is
\* over 2, records a potential reflow; a delta up to 20 ms resets
\* droppedFrames; the next frame is requested.
RenderMonitor_checkFrame(i, deltaTime) ==
  IF ~isMonitoring
    THEN /\ frameLoops' = RemoveAt(frameLoops, i)
         /\ reflows' = reflows
    ELSE LET droppedFrames == IF deltaTime > 2000
                                THEN frameLoops[i] + (deltaTime - 1667) \div 1667
                                ELSE 0
         IN  /\ reflows' = IF deltaTime > 2000 /\ droppedFrames > 2
                             THEN RenderMonitor_recordPotentialReflow(
                                    reflows, deltaTime, droppedFrames)
                             ELSE reflows
             /\ frameLoops' = [frameLoops EXCEPT ![i] = droppedFrames]

\* A pending step of a GPU scan.
ScanStep(scan, stage, candidates, index) ==
  [scan |-> scan, stage |-> stage, candidates |-> candidates, index |-> index]

\* detectGPUAcceleration(): on a loaded page the scan is asked for at an idle
\* point (requestIdleCallback, or setTimeout where the host has none), else
\* a load listener is registered that will ask for it.
RenderMonitor_detectGPUAcceleration ==
  gpuScans' = Append(gpuScans,
                ScanStep(renderCalls.starts + 1,
                         IF readyState = "complete" THEN "idle" ELSE "load", 0, 0))

\* interceptStyleReads(): window.getComputedStyle is replaced by a wrapper
\* around what it was, with its own readCount, lastReadTime and readElements.
RenderMonitor_interceptStyleReads ==
  styleReaders' = Append(styleReaders,
                         [readCount |-> 0, lastReadTime |-> 0, readElements |-> <<>>])

\* start(): nothing when monitoring; else the measure observer and the
\* mutation observer are subscribed, a frame loop is requested,
\* getComputedStyle is wrapped and a GPU scan is asked for.
RenderMonitor_start ==
  IF isMonitoring
    THEN UNCHANGED <<isMonitoring, frameObserver, measureQueue, mutationObserver, frameLoops,
                     gpuScans, styleReaders>>
    ELSE /\ isMonitoring' = TRUE
         /\ frameObserver' = "observing"
         /\ measureQueue' = perfEntries.measures
         /\ frameLoops' = Append(frameLoops, 0)
         /\ mutationObserver' = "observing"
         /\ RenderMonitor_interceptStyleReads
         /\ RenderMonitor_detectGPUAcceleration

\* stop(): the observers are disconnected (which drops what is queued for
\* them) and forgotten.
RenderMonitor_stop ==
  /\ isMonitoring' = FALSE
  /\ frameObserver' = "undefined"
  /\ mutationObserver' = "undefined"
  /\ mutationQueue' = <<>>
  /\ measureQueue' = <<>>

\* clear(): the records, the GPU findings and the suspicious elements are
\* emptied.
RenderMonitor_clear ==
  /\ reflows' = <<>>
  /\ repaints' = <<>>
  /\ gpuAcceleratedElements' = <<>>
  /\ suspiciousElements' = <<>>

\* reduce((sum, r) => sum + r.duration, 0)
RECURSIVE TotalDuration(_)
TotalDuration(rs) == IF rs = <<>> THEN 0 ELSE Head(rs).duration + TotalDuration(Tail(rs))

\* getMetrics(): the counts, the sequences and the total durations.
RenderMonitor_getMetrics ==
  [reflowCount |-> Len(reflows),
   repaintCount |-> Len(repaints),
   reflows |-> reflows,
   repaints |-> repaints,
   gpuAcceleratedCount |-> Len(gpuAcceleratedElements),
   gpuAcceleratedElements |-> gpuAcceleratedElements,
   totalReflowTime |-> TotalDuration(reflows),
   totalRepaintTime |-> TotalDuration(repaints)]

\* No markReflow or markRepaint call yet, on an empty timeline.
MarkIdle ==
  /\ clock = 0
  /\ perfEntries = [marks |-> <<>>, measures |-> <<>>]
  /\ markTimeouts = <<>>
  /\ measureQueue = <<>>
  /\ markCalls = <<>>

\* No wrapper of getComputedStyle yet, and no read.
StyleIdle ==
  /\ styleReaders = <<>>
  /\ styleReads = [n |-> 0, times |-> <<>>, element |-> "undefined", marked |-> <<>>,
                   counts |-> <<>>]

RenderInit ==
  /\ MarkIdle
  /\ StyleIdle
  /\ isMonitoring = FALSE
  /\ reflows = <<>>
  /\ repaints = <<>>
  /\ suspiciousElements = <<>>
  /\ frameObserver = "undefined"
  /\ mutationObserver = "undefined"
  /\ frameLoops = <<>>
  /\ mutationQueue = <<>>
  /\ decayTimers = <<>>
  /\ decaySet = <<>>
  /\ renderCalls = [starts |-> 0, frames |-> 0, mutations |-> 0, measures |-> 0]
  /\ frequent = <<>>

\* The monitor as the other components' runs leave it.
RenderIdle == RenderInit

\* The time between two frames: 16.67 ms, or 70 ms (three frames dropped).
FrameDeltas == {1667, 7000}

\* What one callback of the measure observer is handed: one or many measures
\* named reflow, or one named repaint.
MeasureBatches ==
  {[name |-> "reflow", n |-> 1], [name |-> "reflow", n |-> 999],
   [name |-> "repaint", n |-> 1]}

\* The mutations the observer is told of: a change of the children, or of
\* the attribute style or width.
MutationKinds ==
  {[type |-> "childList", attributeName |-> "null"],
   [type |-> "attributes", attributeName |-> "style"],
   [type |-> "attributes", attributeName |-> "width"]}

\* A caller calls start().
RenderStartCall ==
  /\ isMonitoring \/ renderCalls.starts < MaxStarts
  /\ RenderMonitor_start
  /\ renderCalls' = IF isMonitoring THEN renderCalls
                    ELSE [renderCalls EXCEPT !.starts = @ + 1]
  /\ UNCHANGED <<reflows, repaints, suspiciousElements, mutationQueue, decayTimers, decaySet,
                 frequent, scanLog, styleReads, reporterVars, vitalsVars, gpuVars,
                 helperVars, hostVars,
                 markVars>>

\* A caller calls stop().
RenderStopCall ==
  /\ RenderMonitor_stop
  /\ UNCHANGED <<reflows, repaints, suspiciousElements, frameLoops, decayTimers, decaySet,
                 renderCalls, frequent, nonRenderVars>>

\* A caller calls clear() (PerformanceHelper.clearRenderMetrics()).
RenderClearCall ==
  /\ RenderMonitor_clear
  /\ UNCHANGED <<isMonitoring, frameObserver, measureQueue, mutationObserver, frameLoops,
                 mutationQueue, decayTimers, decaySet, renderCalls, frequent,
                 computedAsDeclared, gpuScanned, scanVars, styleVars,
                 markVars, reporterVars, vitalsVars, helperVars, hostVars>>

\* The host runs a requested checkFrame callback.
FrameFires ==
  \E i \in DOMAIN frameLoops, deltaTime \in FrameDeltas :
    /\ ~isMonitoring \/ renderCalls.frames < MaxFrames
    /\ RenderMonitor_checkFrame(i, deltaTime)
    /\ renderCalls' = IF isMonitoring THEN [renderCalls EXCEPT !.frames = @ + 1]
                      ELSE renderCalls
    /\ UNCHANGED <<isMonitoring, repaints, suspiciousElements, frameObserver, measureQueue,
                   mutationObserver, mutationQueue, decayTimers, decaySet, frequent,
                   nonRenderVars>>

\* The page measures, and the host runs the measure observer's callback.
MeasureCallback ==
  \E batch \in MeasureBatches :
    /\ frameObserver = "observing"
    /\ renderCalls.measures < MaxMeasures
    /\ reflows' = IF batch.name = "reflow"
                    THEN RenderMonitor_recordReflow(reflows, batch.n) ELSE reflows
    /\ repaints' = IF batch.name = "repaint"
                     THEN RenderMonitor_recordRepaint(repaints, batch.n) ELSE repaints
    /\ renderCalls' = [renderCalls EXCEPT !.measures = @ + 1]
    /\ UNCHANGED <<isMonitoring, suspiciousElements, frameObserver, measureQueue, mutationObserver,
                   frameLoops, mutationQueue, decayTimers, decaySet, frequent, nonRenderVars>>

\* The elements the page changes.
Mutated == {"e1", "e2"}

\* The page changes an element: the host queues a record for a connected
\* mutation observer.
DomMutation ==
  \E target \in Mutated, kind \in MutationKinds :
    /\ mutationObserver = "observing"
    /\ renderCalls.mutations < MaxMutations
    /\ mutationQueue' = Append(mutationQueue,
                               [target |-> target, type |-> kind.type,
                                attributeName |-> kind.attributeName])
    /\ renderCalls' = [renderCalls EXCEPT !.mutations = @ + 1]
    /\ UNCHANGED <<isMonitoring, reflows, repaints, suspiciousElements, frameObserver, measureQueue,
                   mutationObserver, frameLoops, decayTimers, decaySet, frequent,
                   nonRenderVars>>

\* The host runs the mutation observer's callback with what is queued.
MutationCallback ==
  /\ mutationObserver = "observing"
  /\ mutationQueue # <<>>
  /\ LET st == RenderMonitor_mutationCallback(
                 [suspicious |-> suspiciousElements, timers |-> decayTimers,
                  reflows |-> reflows], mutationQueue) IN
       /\ suspiciousElements' = st.suspicious
       /\ decayTimers' = st.timers
       /\ decaySet' = decaySet \o [i \in 1..(Len(st.timers) - Len(decayTimers)) |-> clock]
       /\ reflows' = st.reflows
  /\ mutationQueue' = <<>>
  /\ UNCHANGED <<isMonitoring, repaints, frameObserver, measureQueue, mutationObserver, frameLoops,
                 renderCalls, frequent, nonRenderVars>>

\* The oldest 5000 ms timeout of the mutation callback fires.
DecayTimerFires ==
  /\ decayTimers # <<>>
  /\ suspiciousElements' = DeleteSuspicion(suspiciousElements, Head(decayTimers))
  /\ decayTimers' = Tail(decayTimers)
  /\ decaySet' = Tail(decaySet)
  /\ UNCHANGED <<isMonitoring, reflows, repaints, frameObserver, measureQueue, mutationObserver,
                 frameLoops, mutationQueue, renderCalls, frequent, nonRenderVars>>

\* The delay of the timeouts of the mutation callback, in milliseconds.
DecayDelay == 5000

\* Half of that delay passes.
TimePasses ==
  /\ clock < MaxDecaySteps * 2500
  /\ clock' = clock + 2500
  /\ UNCHANGED <<perfEntries, markTimeouts, markCalls, renderVars, nonMarkVars>>

\* The oldest 5000 ms timeout of the mutation callback fires when it is due.
DecayTimerDue ==
  /\ decayTimers # <<>>
  /\ clock >= Head(decaySet) + DecayDelay
  /\ DecayTimerFires

\* The thresholds a caller may pass (3 is the default).
Thresholds == 1..4

\* A caller calls getFrequentReflowElements(threshold).
GetFrequentCall ==
  \E threshold \in Thresholds :
    /\ frequent' = <<[threshold |-> threshold,
                      result |-> RenderMonitor_getFrequentReflowElements(threshold),
                      before |-> reflows]>>
    /\ UNCHANGED <<isMonitoring, reflows, repaints, suspiciousElements, frameObserver, measureQueue,
                   mutationObserver, frameLoops, mutationQueue, decayTimers, decaySet,
                   renderCalls, nonRenderVars>>

\* performance.mark(name) now.
Mark(entries, name) ==
  [entries EXCEPT !.marks = Append(@, [name |-> name, startTime |-> clock])]

\* The startTime of the most recent mark of a name, which is the one
\* performance.measure() takes for a mark name.
LastMark(entries, name) ==
  LET at == {i \in DOMAIN entries.marks : entries.marks[i].name = name}
  IN  entries.marks[CHOOSE i \in at : \A j \in at : j <= i].startTime

\* The entry of performance.measure(name, startMark, endMark).
Measure(entries, name, startMark, endMark) ==
  [name |-> name, startTime |-> LastMark(entries, startMark),
   duration |-> LastMark(entries, endMark) - LastMark(entries, startMark)]

\* performance.getEntriesByName(name, 'measure')[0]: the timeline is in the
\* order of startTime, and entries of one startTime in the order they were
\* added.
FirstMeasure(entries, name) ==
  LET at == {i \in DOMAIN entries.measures : entries.measures[i].name = name}
      first == CHOOSE i \in at : \A j \in at :
                 \/ entries.measures[i].startTime < entries.measures[j].startTime
                 \/ /\ entries.measures[i].startTime = entries.measures[j].startTime
                    /\ i <= j
  IN  entries.measures[first]

StartMark(kind) == IF kind = "reflow" THEN "reflow-start" ELSE "repaint-start"
EndMark(kind) == IF kind = "reflow" THEN "reflow-end" ELSE "repaint-end"

\* markReflow(element, reason) and markRepaint(element, reason) up to
\* setTimeout: the start mark is placed and the rest is deferred.
RenderMonitor_mark(kind, element, reason) ==
  /\ perfEntries' = Mark(perfEntries, StartMark(kind))
  /\ markTimeouts' = Append(markTimeouts,
                            [kind |-> kind, element |-> element, reason |-> reason,
                             call |-> Len(markCalls) + 1])

RenderMonitor_markReflow(element, reason) == RenderMonitor_mark("reflow", element, reason)

RenderMonitor_markRepaint(element, reason) == RenderMonitor_mark("repaint", element, reason)

\* reason || 'manual'
ReasonOrManual(reason) == IF reason \in {"undefined", ""} THEN "manual" ELSE reason

\* The setTimeout(0) callback of markReflow or markRepaint: the end mark,
\* the measure between the marks named start and end, and a record from the
\* first measure of that name in the timeline.
RenderMonitor_markEnd(t) ==
  LET marked == Mark(perfEntries, EndMark(t.kind))
      measured == Measure(marked, t.kind, StartMark(t.kind), EndMark(t.kind))
      entries == [marked EXCEPT !.measures = Append(@, measured)]
      measure == FirstMeasure(entries, t.kind)
      info == RenderInfo(t.element, ReasonOrManual(t.reason), measure.duration, 0)
  IN  /\ perfEntries' = entries
      /\ measureQueue' = IF frameObserver = "observing"
                           THEN Append(measureQueue, measured) ELSE measureQueue
      /\ reflows' = IF t.kind = "reflow" THEN Append(reflows, info) ELSE reflows
      /\ repaints' = IF t.kind = "repaint" THEN Append(repaints, info) ELSE repaints
      /\ markCalls' = [markCalls EXCEPT ![t.call].end = clock,
                                        ![t.call].recorded = <<info>>]

\* recordReflow(entry) and recordRepaint(entry) of the measure observer's
\* callback, on st = (reflows, repaints): a measure whose name includes
\* reflow is a reflow, else one whose name includes repaint is a repaint.
RenderMonitor_onMeasure(st, entry) ==
  IF entry.name = "reflow"
    THEN [st EXCEPT !.reflows =
            Append(@, RenderInfo("undefined", "measured", entry.duration, 0))]
    ELSE IF entry.name = "repaint"
      THEN [st EXCEPT !.repaints =
              Append(@, RenderInfo("undefined", "measured", entry.duration, 0))]
      ELSE st

\* The measure observer's callback: for (const entry of list.getEntries()).
RECURSIVE RenderMonitor_measureCallback(_, _)
RenderMonitor_measureCallback(st, entries) ==
  IF entries = <<>>
    THEN st
    ELSE RenderMonitor_measureCallback(
           RenderMonitor_onMeasure(st, Head(entries)), Tail(entries))

\* A millisecond passes.
Tick ==
  /\ clock < MaxClock
  /\ clock' = clock + 1
  /\ UNCHANGED <<perfEntries, markTimeouts, markCalls, renderVars, nonMarkVars, gpuVars>>

\* The calls a caller makes: markReflow(), markReflow(element, 'resize'),
\* markRepaint().
MarkCalls ==
  {[kind |-> "reflow", element |-> "undefined", reason |-> "undefined"],
   [kind |-> "reflow", element |-> "e1", reason |-> "resize"],
   [kind |-> "repaint", element |-> "undefined", reason |-> "undefined"]}

\* A caller calls markReflow(element, reason) or markRepaint(element, reason).
MarkCall ==
  \E c \in MarkCalls :
    /\ Len(markCalls) < MaxMarks
    /\ IF c.kind = "reflow"
         THEN RenderMonitor_markReflow(c.element, c.reason)
         ELSE RenderMonitor_markRepaint(c.element, c.reason)
    /\ markCalls' = Append(markCalls, [kind |-> c.kind, reason |-> c.reason,
                                       monitoring |-> isMonitoring, start |-> clock,
                                       end |-> 0, recorded |-> <<>>])
    /\ UNCHANGED <<clock, renderVars, nonMarkVars>>

\* The oldest setTimeout(0) callback of markReflow or markRepaint runs.
MarkTimeoutFires ==
  /\ markTimeouts # <<>>
  /\ RenderMonitor_markEnd(Head(markTimeouts))
  /\ markTimeouts' = Tail(markTimeouts)
  /\ UNCHANGED <<clock, isMonitoring, suspiciousElements, frameObserver, mutationObserver,
                 frameLoops, mutationQueue, decayTimers, decaySet, renderCalls, frequent,
                 nonMarkVars>>

\* The host runs the measure observer's callback with what is queued.
MeasureObserved ==
  /\ frameObserver = "observing"
  /\ measureQueue # <<>>
  /\ LET st == RenderMonitor_measureCallback(
                 [reflows |-> reflows, repaints |-> repaints], measureQueue) IN
       /\ reflows' = st.reflows
       /\ repaints' = st.repaints
  /\ measureQueue' = <<>>
  /\ UNCHANGED <<isMonitoring, suspiciousElements, frameObserver, mutationObserver,
                 frameLoops, mutationQueue, decayTimers, decaySet, renderCalls, frequent,
                 nonRenderVars>>

\* The time between two frames of a page whose frames drift: 16.67 ms,
\* 21 ms, 40 ms or 70 ms.
DriftDeltas == {1667, 2100, 4000, 7000}

\* The only frame loop of a monitor that was started once runs.
DriftFrame ==
  \E deltaTime \in DriftDeltas :
    /\ Len(frameLoops) = 1
    /\ renderCalls.frames < MaxDrift
    /\ RenderMonitor_checkFrame(1, deltaTime)
    /\ renderCalls' = [renderCalls EXCEPT !.frames = @ + 1]
    /\ UNCHANGED <<isMonitoring, repaints, suspiciousElements, frameObserver, measureQueue,
                   mutationObserver, mutationQueue, decayTimers, decaySet, frequent,
                   nonRenderVars>>

RenderNext ==
  \/ RenderStartCall
  \/ FrameFires
  \/ MeasureCallback
  \/ DomMutation
  \/ MutationCallback
  \/ DecayTimerFires

(***************************************************************************)
(* RenderMonitor: GPU acceleration                                         *)
(*                                                                         *)
(* An element's style is what its style sheets declare; opacity is in      *)
(* hundredths, a transition's duration in tenths of a second.              *)
(***************************************************************************)

\* The declared styles of the page's elements.
Styles ==
  [willChange : {"auto", "transform"},
   transform : {"none", "translateZ(0)", "translateX(10px)", "translate3d(0, 0, 5px)"},
   transition : {[property |-> "all", duration |-> 0],
                 [property |-> "transform", duration |-> 3],
                 [property |-> "opacity", duration |-> 3]},
   opacity : {100, 50, 0},
   filter : {"none", "blur(2px)"},
   backdropFilter : {"none", "blur(2px)"}]

\* The resolved value of transform: the product of the list's functions, as
\* matrix() when it is a 2D matrix, else as matrix3d().
ResolvedTransform(transform) ==
  CASE transform = "none" -> "none"
    [] transform = "translateZ(0)" -> "matrix(1, 0, 0, 1, 0, 0)"
    [] transform = "translateX(10px)" -> "matrix(1, 0, 0, 1, 10, 0)"
    [] transform = "translate3d(0, 0, 5px)" ->
         "matrix3d(1, 0, 0, 0, 0, 1, 0, 0, 0, 0, 1, 0, 0, 0, 5, 1)"

\* window.getComputedStyle(element)
getComputedStyle(style) ==
  [style EXCEPT !.transform = IF computedAsDeclared THEN @ ELSE ResolvedTransform(@)]

\* transform.includes('translate3d') || transform.includes('translateZ') ||
\* transform.includes('perspective') || transform.includes('matrix3d')
Includes3d(transform) ==
  transform \in {"translateZ(0)", "translate3d(0, 0, 5px)",
                 "matrix3d(1, 0, 0, 0, 0, 1, 0, 0, 0, 0, 1, 0, 0, 0, 5, 1)"}

\* checkGPUAcceleration(element, computedStyle): the methods in the order
\* they are pushed, and the flags.
RenderMonitor_checkGPUAcceleration(element, computedStyle) ==
  LET willChange == computedStyle.willChange # "auto"
      hasTransformTransition ==
        /\ computedStyle.transition.property # "none"
        /\ computedStyle.transition.duration > 0
        /\ computedStyle.transition.property \in {"transform", "all"}
      transformed ==
        computedStyle.transform \notin {"none", "matrix(1, 0, 0, 1, 0, 0)"}
      opacity == computedStyle.opacity < 100 /\ computedStyle.opacity >= 0
      filter == computedStyle.filter # "none"
      backdropFilter == computedStyle.backdropFilter # "none"
      methods ==
        (IF willChange THEN <<"will-change">> ELSE <<>>)
        \o (IF transformed
              THEN IF Includes3d(computedStyle.transform)
                     THEN <<"transform", "transform-3d">> ELSE <<"transform">>
              ELSE IF hasTransformTransition THEN <<"transform-transition">> ELSE <<>>)
        \o (IF opacity THEN <<"opacity">> ELSE <<>>)
        \o (IF filter THEN <<"filter">> ELSE <<>>)
        \o (IF backdropFilter THEN <<"backdrop-filter">> ELSE <<>>)
  IN  [element |-> element,
       elementPath |-> getElementPath(element),
       isAccelerated |-> willChange \/ transformed \/ hasTransformTransition
                         \/ opacity \/ filter \/ backdropFilter,
       accelerationMethods |-> methods,
       willChange |-> willChange,
       transform |-> transformed \/ hasTransformTransition,
       opacity |-> opacity,
       filter |-> filter,
       backdropFilter |-> backdropFilter]

GpuInit ==
  /\ gpuAcceleratedElements = <<>>
  /\ computedAsDeclared \in BOOLEAN
  /\ gpuScanned = <<>>
  /\ gpuScans = <<>>
  /\ scanLog = <<>>

\* The GPU findings as the other components' runs leave them.
GpuIdle == GpuInit /\ ~computedAsDeclared

\* One element of a batch of the GPU scan: its computed style is classified,
\* and the finding is kept when it is accelerated.
GpuScanElement ==
  \E element \in Elements, style \in Styles :
    LET gpuInfo == RenderMonitor_checkGPUAcceleration(element, getComputedStyle(style)) IN
    /\ Len(gpuScanned) < MaxScanned
    /\ gpuAcceleratedElements' = IF gpuInfo.isAccelerated
                                   THEN Append(gpuAcceleratedElements, gpuInfo)
                                   ELSE gpuAcceleratedElements
    /\ gpuScanned' = Append(gpuScanned, [style |-> style, info |-> gpuInfo])
    /\ UNCHANGED <<computedAsDeclared, nonGpuVars>>

GpuNext == GpuScanElement

(***************************************************************************)
(* RenderMonitor: the wrappers of window.getComputedStyle                  *)
(*                                                                         *)
(* readElements is a Map: a sequence of [element, count] in the order the  *)
(* elements were first set.                                                *)
(***************************************************************************)

\* readElements.get(element) || 0
ReadCountOf(readElements, element) ==
  IF \E i \in DOMAIN readElements : readElements[i].element = element
    THEN LET i == CHOOSE i \in DOMAIN readElements : readElements[i].element = element
         IN  readElements[i].count
    ELSE 0

\* readElements.set(element, count): a new key goes to the end, a known key
\* keeps its place.
SetReadCount(readElements, element, count) ==
  IF \E i \in DOMAIN readElements : readElements[i].element = element
    THEN [i \in DOMAIN readElements |->
            IF readElements[i].element = element
              THEN [element |-> element, count |-> count] ELSE readElements[i]]
    ELSE Append(readElements, [element |-> element, count |-> count])

\* Array.from(readElements.entries()).find(([_, count]) => count > 3): the
\* first entry with a count over 3, if there is one.
FrequentElement(readElements) ==
  LET over == {i \in DOMAIN readElements : readElements[i].count > 3}
  IN  IF over = {} THEN <<>>
      ELSE <<readElements[CHOOSE i \in over : \A j \in over : i <= j].element>>

\* One call of a wrapper at time now, before it calls what it wraps: the
\* wrapper's state after it, the element it passed to markRepaint (if any)
\* and the counts it held when it looked for a frequent element.
StyleReader_read(reader, element, now) ==
  LET readCount == reader.readCount + 1
      counted == SetReadCount(reader.readElements, element,
                              ReadCountOf(reader.readElements, element) + 1)
      frequentRead == now - reader.lastReadTime < 10 /\ readCount > 5
  IN  [reader |->
         [readCount |-> IF frequentRead THEN 0 ELSE readCount,
          lastReadTime |-> now,
          readElements |-> IF frequentRead \/ now - reader.lastReadTime > 100
                             THEN <<>> ELSE counted],
       marked |-> IF frequentRead THEN FrequentElement(counted) ELSE <<>>,
       counts |-> counted]

\* A read of window.getComputedStyle(element): the wrapper installed last
\* runs first and calls the one installed before it, down to the host's
\* function. The result holds the wrappers after the read and the elements
\* passed to markRepaint, in the order of the calls.
RECURSIVE ReadThrough(_, _, _)
ReadThrough(readers, element, now) ==
  IF readers = <<>>
    THEN [readers |-> <<>>, marked |-> <<>>]
    ELSE CHOOSE read \in
           {[readers |-> Append(inner.readers, outer.reader),
             marked |-> outer.marked \o inner.marked] :
              outer \in {StyleReader_read(readers[Len(readers)], element, now)},
              inner \in {ReadThrough(SubSeq(readers, 1, Len(readers) - 1), element, now)}} :
           TRUE

\* self.markRepaint(element, 'frequent_style_read') for each of these
\* elements: the start mark is placed and the rest is deferred.
RECURSIVE MarkedRepaints(_, _)
MarkedRepaints(entries, n) ==
  IF n = 0 THEN entries ELSE MarkedRepaints(Mark(entries, StartMark("repaint")), n - 1)

RepaintsMarked(marked) ==
  /\ perfEntries' = MarkedRepaints(perfEntries, Len(marked))
  /\ markTimeouts' = markTimeouts \o
       [i \in 1..Len(marked) |->
          [kind |-> "repaint", element |-> marked[i], reason |-> "frequent_style_read",
           call |-> Len(markCalls) + i]]
  /\ markCalls' = markCalls \o
       [i \in 1..Len(marked) |->
          [kind |-> "repaint", reason |-> "frequent_style_read",
           monitoring |-> isMonitoring, start |-> clock, end |-> 0, recorded |-> <<>>]]

\* The elements whose style the page's scripts read.
ReadElements == {"e1", "e2"}

\* The times the page's scripts let pass between two reads, in milliseconds
\* (or none: two reads may see one performance.now()).
ReadPauses == {20, 200}

\* A script of the page reads the computed style of an element.
StyleRead ==
  \E element \in ReadElements :
    LET read == ReadThrough(styleReaders, element, clock) IN
    /\ styleReaders # <<>>
    /\ styleReads.n < MaxReads
    /\ styleReaders' = read.readers
    /\ RepaintsMarked(read.marked)
    /\ styleReads' =
         [n |-> styleReads.n + 1,
          times |-> IF Len(styleReads.times) < 6
                      THEN Append(styleReads.times, clock)
                      ELSE Append(Tail(styleReads.times), clock),
          element |-> element,
          marked |-> read.marked,
          counts |-> StyleReader_read(styleReaders[1], element, clock).counts]
    /\ UNCHANGED <<clock, renderVars, reporterVars, vitalsVars, gpuVars, scanVars,
                   helperVars, hostVars>>

\* Time passes between two reads.
StylePause ==
  \E pause \in ReadPauses :
    /\ styleReads.n > 0
    /\ styleReads.times[Len(styleReads.times)] = clock
    /\ clock' = clock + pause
    /\ UNCHANGED <<perfEntries, markTimeouts, markCalls, renderVars, nonMarkVars>>

StyleNext ==
  \/ RenderStartCall
  \/ StyleRead
  \/ StylePause

(***************************************************************************)
(* RenderMonitor: the deferred GPU scan                                    *)
(*                                                                         *)
(* The candidates of a scan are the page's elements that are HTMLElements  *)
(* outside the excluded tags, here the rows of a table: candidates[i] is   *)
(* Row(i), for i from 0.                                                   *)
(***************************************************************************)

\* const batchSize = 50
batchSize == 50

\* The numbers of candidates a page may have when its scan starts.
PageSizes == {0, 1, batchSize, batchSize + 1, MaxPage}

\* candidates[i]
Row(i) == "row" \o ToString(i)

\* The declared style of candidates[i]: every third row declares
\* will-change: transform, every third an opacity of 0.5, the others nothing.
RowStyle(i) ==
  [willChange |-> IF i % 3 = 0 THEN "transform" ELSE "auto",
   transform |-> "none",
   transition |-> [property |-> "all", duration |-> 0],
   opacity |-> IF i % 3 = 2 THEN 50 ELSE 100,
   filter |-> "none",
   backdropFilter |-> "none"]

\* The end of a batch that takes every remaining candidate.
RenderMonitor_batchEnd_whole(candidates, index) == candidates

\* const endIndex = Math.min(index + batchSize, candidates.length)
RenderMonitor_batchEnd(candidates, index) ==
  IF index + batchSize < candidates THEN index + batchSize ELSE candidates

\* for (let i = index; i < endIndex; i++): candidates[i] is classified and
\* the finding is pushed when it is accelerated.
RECURSIVE RenderMonitor_batchLoop(_, _, _)
RenderMonitor_batchLoop(found, i, endIndex) ==
  IF i >= endIndex
    THEN found
    ELSE LET gpuInfo == RenderMonitor_checkGPUAcceleration(
                          Row(i), getComputedStyle(RowStyle(i)))
         IN  RenderMonitor_batchLoop(
               IF gpuInfo.isAccelerated THEN Append(found, gpuInfo) ELSE found,
               i + 1, endIndex)

\* The window.getComputedStyle(element) calls of the loop go through the
\* wrappers start() has installed: the wrappers after the calls for
\* candidates[i] to candidates[endIndex - 1], and the elements the wrappers
\* passed to markRepaint during them, in the order of the calls. The calls
\* of the first half of the range are followed by those of the second half,
\* which start from the wrappers the first half has left.
RECURSIVE BatchReads(_, _, _)
BatchReads(readers, i, endIndex) ==
  IF i >= endIndex THEN [readers |-> readers, marked |-> <<>>]
  ELSE IF endIndex = i + 1 THEN ReadThrough(readers, Row(i), clock)
  ELSE CHOOSE read \in UNION {
         {[readers |-> second.readers, marked |-> first.marked \o second.marked] :
            second \in {BatchReads(first.readers, (i + endIndex) \div 2, endIndex)}} :
         first \in {BatchReads(readers, i, (i + endIndex) \div 2)}} : TRUE

\* processGPUAccelerationBatch(candidates, index), run as the pending step k:
\* one batch is classified and, when candidates remain, the next batch is
\* asked for at an idle point (requestIdleCallback, or setTimeout where the
\* host has none).
RenderMonitor_processGPUAccelerationBatch(k, candidates, index) ==
  LET endIndex == RenderMonitor_batchEnd(candidates, index) IN
  /\ \E read \in {BatchReads(styleReaders, index, endIndex)} :
       /\ styleReaders' = read.readers
       /\ RepaintsMarked(read.marked)
  /\ gpuAcceleratedElements' =
       RenderMonitor_batchLoop(gpuAcceleratedElements, index, endIndex)
  /\ gpuScans' = IF endIndex < candidates
                   THEN Append(RemoveAt(gpuScans, k),
                               ScanStep(gpuScans[k].scan, "batch", candidates, endIndex))
                   ELSE RemoveAt(gpuScans, k)
  /\ scanLog' = Append(scanLog, [scan |-> gpuScans[k].scan, candidates |-> candidates,
                                 index |-> index, endIndex |-> endIndex])

\* The host runs an idle request of detectGPUAcceleration():
\* detectGPUAccelerationSelectively() collects the candidates the page has
\* now and runs the first batch.
RenderMonitor_detectGPUAccelerationSelectively(sizes) ==
  \E k \in DOMAIN gpuScans, candidates \in sizes :
    /\ gpuScans[k].stage = "idle"
    /\ RenderMonitor_processGPUAccelerationBatch(k, candidates, 0)
    /\ UNCHANGED <<computedAsDeclared, gpuScanned, styleReads, clock, reporterVars,
                   vitalsVars, renderVars, helperVars, hostVars>>

GpuIdleCallback == RenderMonitor_detectGPUAccelerationSelectively(PageSizes)

\* The same on a page of any number of candidates up to MaxPage.
GpuIdleCallbackAnyPage == RenderMonitor_detectGPUAccelerationSelectively(0..MaxPage)

\* The host runs the continuation of a scan.
GpuBatchCallback ==
  \E k \in DOMAIN gpuScans :
    /\ gpuScans[k].stage = "batch"
    /\ RenderMonitor_processGPUAccelerationBatch(k, gpuScans[k].candidates,
                                                 gpuScans[k].index)
    /\ UNCHANGED <<computedAsDeclared, gpuScanned, styleReads, clock, reporterVars,
                   vitalsVars, renderVars, helperVars, hostVars>>

\* The Reporter as the collector's runs leave it: batched, never used.
ReporterIdle ==
  /\ ReporterInit
  /\ reportUrl = "https://api/report"
  /\ ~immediate
  /\ hasSendBeacon

(***************************************************************************)
(* PerformanceHelper                                                       *)
(***************************************************************************)

\* The options of a helper: the three monitor switches, and a sampleRate of
\* 1 or 0.5 (in hundredths).
HelperOptions ==
  [monitorResources : BOOLEAN, monitorErrors : BOOLEAN, monitorPerformance : BOOLEAN,
   sampleRate : {100, 50}]

\* The defaults of the constructor.
DefaultOptions ==
  [monitorResources |-> TRUE, monitorErrors |-> FALSE, monitorPerformance |-> TRUE,
   sampleRate |-> 100]

\* What Math.random() may return, in hundredths.
RandomDraws == {25, 75}

\* collectAndReportPerformance(): collect(), then reporter.report() of the
\* metrics.
PerformanceHelper_collectAndReportPerformance ==
  /\ metrics' = PerformanceCollector_collect
  /\ snapshots' = IF Len(snapshots) < 2
                    THEN Append(snapshots, PerformanceCollector_collect)
                    ELSE <<snapshots[2], PerformanceCollector_collect>>
  /\ lcpFired' = <<>>
  /\ reported' = reported + 1
  /\ Reporter_report(reported + 1)
  /\ Note("report", <<reported + 1>>)
  /\ UNCHANGED config

\* init() that goes on when the helper is initialized.
PerformanceHelper_init_unguarded(random) ==
  IF random > (IF helperOptions.sampleRate # 0 THEN helperOptions.sampleRate ELSE 100)
    THEN UNCHANGED <<helperInitialized, registered, isMonitoring, frameObserver, measureQueue,
                     mutationObserver, frameLoops, gpuScans, styleReaders, metrics, snapshots, lcpFired,
                     reporterVars>>
    ELSE /\ registered' =
              [resource |-> registered.resource
                              + (IF helperOptions.monitorResources THEN 1 ELSE 0),
               error |-> registered.error
                           + (IF helperOptions.monitorErrors THEN 1 ELSE 0),
               load |-> registered.load
                          + (IF helperOptions.monitorPerformance /\ readyState # "complete"
                               THEN 1 ELSE 0)]
         /\ RenderMonitor_start
         /\ IF helperOptions.monitorPerformance /\ readyState = "complete"
              THEN PerformanceHelper_collectAndReportPerformance
              ELSE UNCHANGED <<metrics, snapshots, lcpFired, reporterVars>>
         /\ helperInitialized' = TRUE

\* init(): a warning and nothing else when initialized; nothing when
\* Math.random() is over the sampleRate; else the resource and error monitors
\* are started as the options say, the render monitor is started, the
\* metrics are collected and reported at once on a loaded page or a load
\* listener is registered, and initialized is set.
PerformanceHelper_init(random) ==
  IF helperInitialized
    THEN UNCHANGED <<helperInitialized, registered, isMonitoring, frameObserver, measureQueue,
                     mutationObserver, frameLoops, gpuScans, styleReaders, metrics, snapshots, lcpFired,
                     reporterVars>>
    ELSE IF random > (IF helperOptions.sampleRate # 0 THEN helperOptions.sampleRate ELSE 100)
      THEN UNCHANGED <<helperInitialized, registered, isMonitoring, frameObserver, measureQueue,
                       mutationObserver, frameLoops, gpuScans, styleReaders, metrics, snapshots, lcpFired,
                       reporterVars>>
      ELSE /\ registered' =
                [resource |-> registered.resource
                                + (IF helperOptions.monitorResources THEN 1 ELSE 0),
                 error |-> registered.error
                             + (IF helperOptions.monitorErrors THEN 1 ELSE 0),
                 load |-> registered.load
                            + (IF helperOptions.monitorPerformance /\ readyState # "complete"
                                 THEN 1 ELSE 0)]
           /\ RenderMonitor_start
           /\ IF helperOptions.monitorPerformance /\ readyState = "complete"
                THEN PerformanceHelper_collectAndReportPerformance
                ELSE UNCHANGED <<metrics, snapshots, lcpFired, reporterVars>>
           /\ helperInitialized' = TRUE

\* destroy(): reporter.destroy(), performanceCollector.destroy(),
\* renderMonitor.stop(), and initialized is reset.
PerformanceHelper_destroy ==
  /\ Reporter_destroy
  /\ PerformanceCollector_destroy
  /\ RenderMonitor_stop
  /\ helperInitialized' = FALSE

\* The collector after the constructor's performanceCollector.init().
CollectorConstructed ==
  /\ metrics = PerformanceCollector_observeTBT(<< >>)
  /\ initialized = TRUE
  /\ longTaskObserver = "observing"
  /\ timeline = <<>>
  /\ observerQueue = <<>>
  /\ observations = <<>>
  /\ subscriptions = 1
  /\ snapshots = <<>>
  /\ clsObserver = "observing"
  /\ clsValue = 0
  /\ clsEntries = <<>>
  /\ shiftTimeline = <<>>
  /\ clsQueue = <<>>
  /\ clsDelivered = <<>>
  /\ lcpObserver = "observing"
  /\ lcpExposed = FALSE
  /\ lcpTimeline = <<>>
  /\ lcpQueue = <<>>
  /\ lcpFired = <<>>
  /\ fcpObserver = "observing"
  /\ fcpQueue = <<>>
  /\ paintTimeline = <<>>
  /\ fidObserver = "observing"
  /\ fidQueue = <<>>
  /\ inputTimeline = <<>>

\* A helper after its constructor: the reporter, the monitors and, with
\* monitorPerformance, the initialized collector.
HelperConstructed ==
  /\ HostFull
  /\ helperInitialized = FALSE
  /\ helperOptions \in HelperOptions
  /\ readyState \in {"loading", "complete"}
  /\ registered = [load |-> 0, resource |-> 0, error |-> 0]
  /\ loadTimers = 0
  /\ helperCalls = [inits |-> 0, warnings |-> 0, dropped |-> 0, kept |-> <<>>]
  /\ IF helperOptions.monitorPerformance THEN CollectorConstructed ELSE CollectorInit /\ ~lcpExposed
  /\ CallerIdle
  /\ ReporterIdle
  /\ RenderIdle
  /\ GpuIdle

\* The metrics and the records, as destroy() leaves them.
Stored == [metrics |-> metrics, clsValue |-> clsValue, clsEntries |-> clsEntries,
           reflows |-> reflows, repaints |-> repaints,
           gpuAcceleratedElements |-> gpuAcceleratedElements]

\* A caller calls init().
HelperInitCall ==
  \E random \in RandomDraws :
    /\ helperCalls.inits < MaxInits
    /\ helperInitialized \/ isMonitoring \/ renderCalls.starts < MaxStarts
    /\ (~helperInitialized /\ helperOptions.monitorPerformance /\ readyState = "complete")
         => (reported < MaxReports /\ Len(sent) < MaxSent)
    /\ PerformanceHelper_init(random)
    /\ helperCalls' = [inits |-> helperCalls.inits + 1,
                       warnings |-> helperCalls.warnings
                                      + (IF helperInitialized THEN 1 ELSE 0),
                       dropped |-> IF helperInitialized' /\ ~helperInitialized
                                     THEN 0 ELSE helperCalls.dropped,
                       kept |-> IF helperInitialized' /\ ~helperInitialized
                                  THEN <<>> ELSE helperCalls.kept]
    /\ renderCalls' = IF isMonitoring' /\ ~isMonitoring
                        THEN [renderCalls EXCEPT !.starts = @ + 1] ELSE renderCalls
    /\ UNCHANGED <<helperOptions, readyState, loadTimers, hostVars, markVars,
                   initialized, longTaskObserver, timeline, observerQueue, observations,
                   subscriptions, clsVars, lcpObserver, lcpExposed, lcpTimeline, lcpQueue,
                   paintVars, fidVars, held,
                   reflows, repaints, suspiciousElements, mutationQueue, decayTimers, decaySet,
                   frequent, gpuVars, scanLog, styleReads>>

\* A caller calls destroy().
HelperDestroyCall ==
  /\ Len(sent) < MaxSent
  /\ PerformanceHelper_destroy
  /\ Note("destroy", <<>>)
  /\ helperCalls' = [helperCalls EXCEPT
                       !.dropped = Len(observerQueue) + Len(clsQueue) + Len(lcpQueue)
                                     + Len(fcpQueue) + Len(fidQueue) + Len(mutationQueue),
                       !.kept = <<Stored>>]
  /\ UNCHANGED <<reported, config,
                 timeline, observations, subscriptions, snapshots, shiftTimeline,
                 clsDelivered, lcpExposed, lcpTimeline, lcpFired, paintTimeline,
                 inputTimeline, held,
                 reflows, repaints, suspiciousElements, frameLoops, decayTimers, decaySet,
                 renderCalls, frequent, gpuVars, scanVars, styleVars,
                 helperOptions, readyState, registered, loadTimers, hostVars,
                 markVars>>

\* The page finishes loading: every load listener of init() sets its
\* 2000 ms timeout, and every load listener of a start() asks for its scan.
PageLoads ==
  /\ readyState = "loading"
  /\ readyState' = "complete"
  /\ loadTimers' = loadTimers + registered.load
  /\ gpuScans' = [i \in DOMAIN gpuScans |->
                    IF gpuScans[i].stage = "load"
                      THEN [gpuScans[i] EXCEPT !.stage = "idle"] ELSE gpuScans[i]]
  /\ UNCHANGED <<helperInitialized, helperOptions, registered, helperCalls, scanLog,
                 styleVars,
                 reporterVars, vitalsVars, renderVars, gpuVars, hostVars, markVars>>

\* A 2000 ms timeout of a load listener fires.
LoadTimerFires ==
  /\ loadTimers > 0
  /\ reported < MaxReports
  /\ Len(sent) < MaxSent
  /\ loadTimers' = loadTimers - 1
  /\ PerformanceHelper_collectAndReportPerformance
  /\ UNCHANGED <<helperInitialized, helperOptions, readyState, registered, helperCalls,
                 hostVars, markVars, initialized, longTaskObserver, timeline, observerQueue, observations,
                 subscriptions, clsVars, lcpObserver, lcpExposed, lcpTimeline, lcpQueue,
                 paintVars, fidVars, held, renderVars, gpuVars, scanVars, styleVars>>

HelperNext ==
  \/ HelperInitCall
  \/ HelperDestroyCall
  \/ PageLoads
  \/ LoadTimerFires

\* Page events while a helper is torn down: as many as MaxEvents, one sample
\* of each kind.
EventBudget ==
  Len(timeline) + Len(shiftTimeline) + Len(lcpTimeline) + Len(paintTimeline)
    + Len(inputTimeline) + renderCalls.frames + renderCalls.mutations
    + renderCalls.measures < MaxEvents

PageTask ==
  /\ EventBudget
  /\ LongTaskOccurs
  /\ timeline'[Len(timeline')].duration = 1206
  /\ timeline'[Len(timeline')].attribution = NoAttribution

PageShift ==
  /\ EventBudget
  /\ LayoutShiftOccurs
  /\ shiftTimeline'[Len(shiftTimeline')] \in
       {[startTime |-> 0, value |-> 1000, hadRecentInput |-> FALSE],
        [startTime |-> 500, value |-> 500, hadRecentInput |-> FALSE]}

PageCandidate ==
  /\ EventBudget
  /\ LcpCandidateOccurs
  /\ lcpTimeline'[Len(lcpTimeline')] =
       [renderTime |-> 12006, loadTime |-> 0, startTime |-> 0,
        element |-> "html > body > img.hero"]

PagePaint == EventBudget /\ PaintOccurs

PageInput == EventBudget /\ FirstInputOccurs

PageFrame ==
  /\ isMonitoring => EventBudget
  /\ FrameFires

PageMeasure ==
  /\ EventBudget
  /\ MeasureCallback
  /\ Len(reflows') + Len(repaints') = Len(reflows) + Len(repaints) + 1

PageMutation ==
  /\ EventBudget
  /\ DomMutation
  /\ mutationQueue'[Len(mutationQueue')] =
       [target |-> "e1", type |-> "attributes", attributeName |-> "width"]

TeardownNext ==
  \/ HelperInitCall
  \/ HelperDestroyCall
  \/ PageTask
  \/ LongTaskCallback
  \/ PageShift
  \/ LayoutShiftCallback
  \/ PageCandidate
  \/ LcpCallback
  \/ PagePaint
  \/ FcpCallback
  \/ PageInput
  \/ FidCallback
  \/ PageFrame
  \/ PageMeasure
  \/ PageMutation
  \/ MutationCallback

\* No PerformanceHelper was constructed.
HelperIdle ==
  /\ helperInitialized = FALSE
  /\ helperOptions = [monitorResources |-> TRUE, monitorErrors |-> FALSE,
                      monitorPerformance |-> TRUE, sampleRate |-> 100]
  /\ readyState = "loading"
  /\ registered = [load |-> 0, resource |-> 0, error |-> 0]
  /\ loadTimers = 0
  /\ helperCalls = [inits |-> 0, warnings |-> 0, dropped |-> 0, kept |-> <<>>]

(***************************************************************************)
(* Specifications                                                          *)
(***************************************************************************)

Init == ReporterInit /\ CollectorIdle /\ RenderIdle /\ GpuIdle /\ HelperIdle

Next == ReporterNext

\* The Reporter under every option and host, driven by its callers and the page.
Spec == Init /\ [][Next]_vars

\* The same where the interval of startBatchTimer() keeps firing while it is
\* set: setInterval calls its callback again and again until clearInterval.
LiveSpec == Init /\ [][Next]_vars /\ WF_vars(TimerFires)

\* The PerformanceCollector, driven by its callers and the host's long tasks.
CollectorSpecInit == CollectorIdle /\ ReporterIdle /\ RenderIdle /\ GpuIdle /\ HelperIdle

CollectorSpec == CollectorSpecInit /\ [][CollectorNext]_vars

\* The PerformanceCollector, driven by its callers and the page's layout shifts.
VitalsSpecInit == CollectorIdle /\ ReporterIdle /\ RenderIdle /\ GpuIdle /\ HelperIdle

ClsSpec == VitalsSpecInit /\ [][ClsNext]_vars

\* The PerformanceCollector, driven by its callers and the page's LCP candidates.
LcpSpec == VitalsSpecInit /\ [][LcpNext]_vars

\* The PerformanceCollector, driven by its callers, the page's paints and the
\* user's first input.
FidSpec == VitalsSpecInit /\ [][FidNext]_vars

\* The PerformanceCollector with collect(), in a host that does or does not
\* return the LCP candidates from getEntriesByType.
FinalLcpSpecInit ==
  /\ CollectorInit /\ CallerIdle /\ HostFull
  /\ ReporterIdle /\ RenderIdle /\ GpuIdle /\ HelperIdle

FinalLcpNext ==
  \/ LcpCandidateOccurs
  \/ LcpCallback
  \/ CollectorInitCall
  \/ CollectorDestroyCall
  \/ CollectorCollectCall

FinalLcpSpec == FinalLcpSpecInit /\ [][FinalLcpNext]_vars

\* The PerformanceCollector with collect(), in every host of a navigation,
\* driven by its callers and the page's paints.
NavigationSpecInit ==
  /\ CollectorInit /\ CallerIdle /\ ~lcpExposed
  /\ host = AllChannels
  /\ ReporterIdle /\ RenderIdle /\ GpuIdle /\ HelperIdle

NavigationNext ==
  \/ PaintOccurs
  \/ FcpCallback
  \/ CollectorInitCall
  \/ CollectorDestroyCall
  \/ CollectorCollectCall

NavigationSpec == NavigationSpecInit /\ [][NavigationNext]_vars

\* The RenderMonitor, driven by its callers, the page and the host.
RenderSpecInit == RenderInit /\ ReporterIdle /\ CollectorIdle /\ GpuIdle /\ HelperIdle

RenderSpec == RenderSpecInit /\ [][RenderNext]_vars

\* The RenderMonitor with stop() and clear(), driven by the page's mutations.
ClearNext ==
  \/ RenderStartCall
  \/ RenderStopCall
  \/ RenderClearCall
  \/ DomMutation
  \/ MutationCallback

ClearSpec == RenderSpecInit /\ [][ClearNext]_vars

\* The RenderMonitor's wrapper of getComputedStyle, driven by the reads of the
\* page's scripts.
StyleSpec == RenderSpecInit /\ [][StyleNext]_vars

\* The RenderMonitor's GPU scans, driven by start() and stop(), the page's
\* load and the host's idle points.
ScanNext ==
  \/ RenderStartCall
  \/ RenderStopCall
  \/ PageLoads
  \/ GpuIdleCallback
  \/ GpuBatchCallback

ScanSpec == RenderSpecInit /\ [][ScanNext]_vars

\* The scan of a monitor that is started and left running, where the host
\* runs every idle request and every continuation: requestIdleCallback is
\* called with a timeout, and setTimeout fires.
ScanLiveNext ==
  \/ RenderStartCall
  \/ PageLoads
  \/ GpuIdleCallbackAnyPage
  \/ GpuBatchCallback

ScanLiveSpec ==
  /\ RenderSpecInit /\ [][ScanLiveNext]_vars
  /\ WF_vars(GpuIdleCallbackAnyPage) /\ WF_vars(GpuBatchCallback)

\* The records a monitor may hold: of a mutation of e1, of a frame drop
\* after a mutation of e2, of a mutation of e3, and of a measure.
RecordSamples ==
  {RenderInfo("e1", AttributeChange("width"), 0, 0),
   RenderInfo("e2", "frame_drop", 7000, 3),
   RenderInfo("e3", AttributeChange("height"), 0, 0),
   RenderInfo("undefined", "measured", 100, 0)}

\* A monitor that has recorded up to MaxRecords reflows.
FrequentSpecInit ==
  /\ ReporterIdle
  /\ HelperIdle
  /\ CollectorIdle
  /\ GpuIdle
  /\ isMonitoring = TRUE
  /\ reflows \in UNION {[1..n -> RecordSamples] : n \in 0..MaxRecords}
  /\ repaints = <<>>
  /\ suspiciousElements = <<>>
  /\ frameObserver = "observing"
  /\ mutationObserver = "observing"
  /\ frameLoops = <<0>>
  /\ MarkIdle
  /\ StyleIdle
  /\ mutationQueue = <<>>
  /\ decayTimers = <<>>
  /\ decaySet = <<>>
  /\ renderCalls = [starts |-> 1, frames |-> 0, mutations |-> 0, measures |-> 0]
  /\ frequent = <<>>

FrequentNext == GetFrequentCall

\* getFrequentReflowElements on the records a monitor may hold.
FrequentSpec == FrequentSpecInit /\ [][FrequentNext]_vars

\* The GPU scan, on every style an element may have, in either host.
GpuSpecInit == GpuInit /\ ReporterIdle /\ CollectorIdle /\ RenderIdle /\ HelperIdle

GpuSpec == GpuSpecInit /\ [][GpuNext]_vars

\* A PerformanceHelper under every option, driven by its callers and the
\* page's load.
HelperSpec == HelperConstructed /\ [][HelperNext]_vars

\* A PerformanceHelper with the default options on a loading page, driven by
\* its callers, the page and the host's callbacks.
TeardownSpecInit ==
  /\ HelperConstructed
  /\ helperOptions = DefaultOptions
  /\ readyState = "loading"

TeardownSpec == TeardownSpecInit /\ [][TeardownNext]_vars

\* The PerformanceCollector with a caller that keeps and changes what
\* collect() returns.
SnapshotSpecInit ==
  /\ CollectorInit
  /\ ~lcpExposed
  /\ held = [keeps |-> TRUE, snapshot |-> <<>>]
  /\ HostFull
  /\ ReporterIdle /\ RenderIdle /\ GpuIdle /\ HelperIdle

SnapshotNext ==
  \/ LongTaskOccurs
  \/ LongTaskCallback
  \/ CollectorInitCall
  \/ CollectorDestroyCall
  \/ CollectorCollectCall
  \/ CallerEditsSnapshot

SnapshotSpec == SnapshotSpecInit /\ [][SnapshotNext]_vars

\* The hosts: one with every channel; without PerformanceObserver; without
\* one entry type or without any, where observe() of a type the host does not
\* support is ignored or throws.
Hosts ==
  {[PerformanceObserver |-> TRUE, lacks |-> {}, observeThrows |-> FALSE],
   [PerformanceObserver |-> FALSE, lacks |-> Channels, observeThrows |-> FALSE]}
  \cup
  {[PerformanceObserver |-> TRUE, lacks |-> l, observeThrows |-> t] :
     l \in {{c} : c \in Channels} \cup {Channels}, t \in BOOLEAN}

\* The PerformanceCollector in every host, driven by its callers, the page
\* and the host's callbacks.
ChannelSpecInit ==
  /\ CollectorInit
  /\ ~lcpExposed
  /\ CallerIdle
  /\ host \in Hosts
  /\ NavigationIdle
  /\ ReporterIdle /\ RenderIdle /\ GpuIdle
  /\ helperInitialized = FALSE
  /\ helperOptions = DefaultOptions
  /\ readyState = "loading"
  /\ registered = [load |-> 0, resource |-> 0, error |-> 0]
  /\ loadTimers = 0
  /\ helperCalls = [inits |-> 0, warnings |-> 0, dropped |-> 0, kept |-> <<>>]

ChannelNext ==
  \/ CollectorInitCall
  \/ CollectorCollectCall
  \/ PageTask
  \/ LongTaskCallback
  \/ PageShift
  \/ LayoutShiftCallback
  \/ PageCandidate
  \/ LcpCallback
  \/ PagePaint
  \/ FcpCallback
  \/ PageInput
  \/ FidCallback

ChannelSpec == ChannelSpecInit /\ [][ChannelNext]_vars

\* A page whose layout keeps shifting: its k-th shift starts 900 after the
\* one before, has value 0 or 0.1, and may follow an input.
ChainGap == 900
ChainShifts ==
  {[value |-> 0, hadRecentInput |-> FALSE], [value |-> 1000, hadRecentInput |-> FALSE],
   [value |-> 1000, hadRecentInput |-> TRUE]}

ChainShiftOccurs ==
  \E e \in ChainShifts :
    LET entry == [startTime |-> ChainGap * Len(shiftTimeline), value |-> e.value,
                  hadRecentInput |-> e.hadRecentInput] IN
    /\ Supported("layout-shift")
    /\ Len(shiftTimeline) < MaxChain
    /\ shiftTimeline' = Append(shiftTimeline, entry)
    /\ clsQueue' = IF clsObserver = "observing" THEN Append(clsQueue, entry) ELSE clsQueue
    /\ UNCHANGED <<clsObserver, clsValue, clsEntries, clsDelivered,
                   collectorVars, lcpVars, otherVars>>

\* The PerformanceCollector on that page.
SessionSpecInit == VitalsSpecInit

SessionNext ==
  \/ CollectorInitCall
  \/ ChainShiftOccurs
  \/ LayoutShiftCallback

SessionSpec == SessionSpecInit /\ [][SessionNext]_vars

\* The RenderMonitor, driven by callers of start(), markReflow() and
\* markRepaint(), the clock and the host's callbacks.
MarkSpecInit == RenderSpecInit

MarkNext ==
  \/ RenderStartCall
  \/ Tick
  \/ MarkCall
  \/ MarkTimeoutFires
  \/ MeasureObserved

MarkSpec == MarkSpecInit /\ [][MarkNext]_vars

\* The RenderMonitor, driven by callers of start() and stop() and the host's
\* frames.
RestartSpecInit == RenderSpecInit

RestartNext ==
  \/ RenderStartCall
  \/ RenderStopCall
  \/ FrameFires
  \/ DomMutation
  \/ MutationCallback

RestartSpec == RestartSpecInit /\ [][RestartNext]_vars

\* The RenderMonitor, driven by the page's mutations and the clock.
DecaySpecInit == RenderSpecInit

DecayNext ==
  \/ RenderStartCall
  \/ DomMutation
  \/ MutationCallback
  \/ TimePasses
  \/ DecayTimerDue

DecaySpec == DecaySpecInit /\ [][DecayNext]_vars

\* The mutations a monitor has been told of within the last 5 s: none, three
\* on two elements, or seven on six elements.
RecentMutations ==
  {<<>>, <<"e1", "e1", "e2">>, <<"e1", "e1", "e2", "e3", "e4", "e5", "e6">>}

\* The suspicion counts after those mutations.
RECURSIVE Suspicions(_)
Suspicions(targets) ==
  IF targets = <<>>
    THEN <<>>
    ELSE LET before == Suspicions(SubSeq(targets, 1, Len(targets) - 1))
             target == targets[Len(targets)]
         IN  SetSuspicion(before, target, SuspicionOf(before, target) + 1)

\* A monitor that was started and has been told of recent mutations.
FrameSpecInit ==
  /\ ReporterIdle
  /\ HelperIdle
  /\ CollectorIdle
  /\ GpuIdle
  /\ MarkIdle
  /\ StyleIdle
  /\ isMonitoring = TRUE
  /\ reflows = <<>>
  /\ repaints = <<>>
  /\ decayTimers \in RecentMutations
  /\ decaySet = [i \in DOMAIN decayTimers |-> 0]
  /\ suspiciousElements = Suspicions(decayTimers)
  /\ frameObserver = "observing"
  /\ mutationObserver = "observing"
  /\ frameLoops = <<0>>
  /\ mutationQueue = <<>>
  /\ renderCalls = [starts |-> 1, frames |-> 0, mutations |-> Len(decayTimers),
                    measures |-> 0]
  /\ frequent = <<>>

FrameNext == DriftFrame

\* The frame loop of that monitor on a page whose frames drift.
FrameSpec == FrameSpecInit /\ [][FrameNext]_vars

(***************************************************************************)
(* Claims about the Reporter (all under Spec)                              *)
(***************************************************************************)

\* The envelopes reported so far, in the order of the report() calls.
AllReported == [i \in 1..reported |-> i]

\* The calls of sendBeacon and fetch so far.
NetworkCalls == {i \in 1..Len(sent) : sent[i].via # "console"}

\* How often envelope e was handed to a network transport.
HandedCount(e) ==
  Cardinality({i \in NetworkCalls : e \in Range(sent[i].data)})

\* C1 as stated: in batched mode no network transport is called, and every reported
\* envelope is in the queue, until the interval has elapsed or destroy() was
\* called.
C1_HeldUntilIntervalOrDestroy ==
  (~immediate /\ occurred \cap {"timer", "destroy"} = {})
    => (NetworkCalls = {} /\ queue = AllReported)

\* C1 as amended: in batched mode no transport is called (not even the console
\* of a Reporter without reportUrl), and every reported envelope is in the queue, until the interval has elapsed, destroy() was
\* called or the page fired beforeunload.
C1_HeldUntilFlush ==
  (~immediate /\ occurred \cap {"timer", "destroy", "unload"} = {})
    => (sent = <<>> /\ queue = AllReported)

C1_Witness ==
  /\ ~immediate
  /\ occurred = {}
  /\ reported >= 2
  /\ last.op = "report"

\* C2: in immediate mode the queue is always empty, every report() call makes
\* exactly one transport call, and its payload is that one envelope.
C2_ImmediateSendsEach ==
  immediate =>
    /\ queue = <<>>
    /\ Len(sent) = reported
    /\ \A i \in 1..Len(sent) : sent[i].data = <<i>> /\ sent[i].by = "report"
    /\ last.op = "report" => Len(sent) = last.n + 1

C2_Witness ==
  /\ immediate
  /\ last.op = "report"
  /\ reported >= 2
  /\ {"destroy", "unload"} \subseteq occurred

\* C3 as stated: a flush (timer, destroy(), page teardown) that attempts a send
\* leaves none of the envelopes it sent in the queue, and no envelope is handed
\* to a network transport more often than once plus the number of times a
\* failure requeued it.
C3_RemovedOnSendAttempt ==
  /\ (last.op \in {"timer", "destroy", "unload"} /\ Len(sent) \in NetworkCalls
        /\ Len(sent) > last.n)
       => Range(sent[Len(sent)].data) \cap Range(queue) = {}
  /\ \A e \in 1..reported : HandedCount(e) <= 1 + requeues[e]

\* C4: a timer flush of a non-empty queue makes one transport call whose payload
\* is the queue as it was, in its order, and empties the queue; a timer flush of
\* an empty queue makes no transport call.
C4_TimerFlush ==
  last.op = "timer" =>
    /\ queue = <<>>
    /\ IF last.pre # <<>>
         THEN /\ Len(sent) = last.n + 1
              /\ sent[Len(sent)].data = last.pre
              /\ sent[Len(sent)].by = "timer"
         ELSE Len(sent) = last.n

C4_Witness ==
  /\ last.op = "timer"
  /\ Len(last.pre) >= 2
  /\ Len(sent) >= 2

\* C5 as stated: on beforeunload with a reportUrl and a non-empty queue the
\* listener raises no error and hands the queue to the beacon, in every host.
C5_TeardownHandsOver ==
  (last.op = "unload" /\ reportUrl # "" /\ last.pre # <<>>) =>
    /\ ~thrown
    /\ Len(sent) = last.n + 1
    /\ sent[Len(sent)].data = last.pre
    /\ sent[Len(sent)].via = "beacon"

\* C6: a rejected fetch raises nothing; in batched mode its payload is appended
\* to the queue, stays there until it is handed over, and the next timer or
\* destroy() flush hands over the whole queue; in immediate mode it is dropped:
\* the queue stays empty and no envelope is handed over a second time.
C6_FallbackFailure ==
  /\ last.op = "fetchFail" =>
       /\ ~thrown
       /\ queue = IF immediate THEN last.pre ELSE last.pre \o last.data
  /\ ~immediate => awaitingRetry \subseteq Range(queue)
  /\ (last.op \in {"timer", "destroy"} /\ last.pre # <<>>) =>
       /\ Len(sent) = last.n + 1
       /\ sent[Len(sent)].data = last.pre
  /\ immediate =>
       /\ queue = <<>>
       /\ \A e \in 1..reported : HandedCount(e) <= 1

\* A failed payload went out again with a timer flush.
C6_Witness ==
  /\ ~immediate
  /\ last.op = "timer"
  /\ "unload" \notin occurred
  /\ \E e \in Range(last.pre) : requeues[e] >= 1 /\ HandedCount(e) = 2

\* C7: right after destroy() the queue is empty, what was queued went out in one
\* transport call, the interval is cleared, and once destroy() was called no
\* timer callback runs any more.
C7_DestroyFinalFlush ==
  /\ last.op = "destroy" =>
       /\ queue = <<>>
       /\ IF last.pre # <<>>
            THEN /\ Len(sent) = last.n + 1
                 /\ sent[Len(sent)].data = last.pre
            ELSE Len(sent) = last.n
  /\ "destroy" \in occurred =>
       /\ intervals = {}
       /\ last.op # "timer"

C7_Witness ==
  /\ ~immediate
  /\ last.op = "destroy"
  /\ Len(last.pre) >= 2
  /\ "timer" \in occurred

\* C8: without a reportUrl no call of sendBeacon or fetch is ever made.
C8_NoUrlNoNetwork ==
  reportUrl = "" =>
    /\ inflight = {}
    /\ \A i \in 1..Len(sent) : sent[i].via = "console"

C8_Witness ==
  /\ reportUrl = ""
  /\ {"timer", "destroy", "unload"} \subseteq occurred
  /\ Len(sent) >= 3

(***************************************************************************)
(* Claims about the long tasks and TBT (all under CollectorSpec)           *)
(***************************************************************************)

\* The sum of d - 50 ms, in tenths of a millisecond, over the entries with d > 50 ms.
RECURSIVE SumExact(_)
SumExact(entries) ==
  IF entries = <<>>
    THEN 0
    ELSE (IF Head(entries).duration > 500 THEN Head(entries).duration - 500 ELSE 0)
         + SumExact(Tail(entries))

\* The sum of round(d) - 50, in milliseconds, over the entries with d > 50 ms.
RECURSIVE SumRounded(_)
SumRounded(entries) ==
  IF entries = <<>>
    THEN 0
    ELSE (IF Head(entries).duration > 500
            THEN MathRound(Head(entries).duration) - 50 ELSE 0)
         + SumRounded(Tail(entries))

\* collect() calls that follow one another without an observation between them
\* return the same tbt (tbt is absent until the first init() has subscribed).
RepeatedCollectAgrees ==
  /\ subscriptions > 0 => "tbt" \in DOMAIN metrics
  /\ (Len(snapshots) = 2 /\ "tbt" \in DOMAIN snapshots[1]) =>
       /\ "tbt" \in DOMAIN snapshots[2]
       /\ snapshots[1]["tbt"] = snapshots[2]["tbt"]

\* C9 as stated: the tbt collect() returns is the sum of d - 50 over the
\* observations with d > 50, and repeated collect() calls agree.
C9_TbtIsExactSum ==
  /\ \A i \in 1..Len(snapshots) :
       "tbt" \in DOMAIN snapshots[i] => 10 * snapshots[i]["tbt"] = SumExact(observations)
  /\ RepeatedCollectAgrees

\* C9 as amended: once init() has subscribed, the tbt collect() returns is the
\* sum of round(d) - 50 over the observations with d > 50, and repeated
\* collect() calls agree.
C9_TbtIsRoundedSum ==
  /\ \A i \in 1..Len(snapshots) :
       "tbt" \in DOMAIN snapshots[i] => snapshots[i]["tbt"] = SumRounded(observations)
  /\ RepeatedCollectAgrees

\* Two collect() calls in a row after observations over and under 50 ms.
C9_Witness ==
  /\ Len(snapshots) = 2
  /\ "tbt" \in DOMAIN snapshots[2]
  /\ snapshots[2]["tbt"] > 0
  /\ \E i \in 1..Len(observations) : observations[i].duration <= 500
  /\ Cardinality({i \in 1..Len(observations) : observations[i].duration > 500}) >= 2

\* The entries of the timeline that were handed to the callback, each once.
ObservedTasks == SelectSeq(timeline, LAMBDA e : e \in Range(observations))

\* C10 as stated: in the result of collect() every long task appears once in
\* longTasks and counts once in tbt, however often the host delivered it.
C10_NoDoubleCounting ==
  \A i \in 1..Len(snapshots) :
    "longTasks" \in DOMAIN snapshots[i] =>
      /\ \A j, k \in 1..Len(snapshots[i]["longTasks"]) :
           j # k => snapshots[i]["longTasks"][j].startTime
                      # snapshots[i]["longTasks"][k].startTime
      /\ snapshots[i]["tbt"] = SumRounded(ObservedTasks)

(***************************************************************************)
(* Claims about CLS (all under ClsSpec)                                    *)
(***************************************************************************)

\* A layout shift without recent input.
Shift(t, v) == [startTime |-> t, value |-> v, hadRecentInput |-> FALSE]

\* The shifts without recent input among those handed to the current
\* observer's callback.
CountedShifts == SelectSeq(clsDelivered, LAMBDA e : ~e.hadRecentInput)

\* C11 as stated: shifts without recent input at t=0 (0.1), t=500 (0.05) and
\* t=4800 (0.2) all merge into one session with running CLS 0.35, and a
\* following shift at t=6000 starts a new session with its own value alone.
C11_ThreeShiftsMerge ==
  /\ CountedShifts = <<Shift(0, 1000), Shift(500, 500), Shift(4800, 2000)>>
       => /\ clsValue = 3500
          /\ clsEntries = CountedShifts
          /\ metrics["cls"] = 350
  /\ \A v \in ShiftValues :
       CountedShifts = <<Shift(0, 1000), Shift(500, 500), Shift(4800, 2000), Shift(6000, v)>>
         => /\ clsValue = v
            /\ clsEntries = <<Shift(6000, v)>>

\* C11 as amended: the shifts at t=0 (0.1) and t=500 (0.05) merge into one
\* session with running CLS 0.15; the shift at t=4800 (0.2), 4300 after the
\* previous member, starts a new session with value 0.2; a following shift at
\* t=6000 starts a new session with its own value alone.
C11_ExampleSessions ==
  /\ CountedShifts = <<Shift(0, 1000), Shift(500, 500)>>
       => /\ clsValue = 1500
          /\ clsEntries = CountedShifts
          /\ metrics["cls"] = 150
  /\ CountedShifts = <<Shift(0, 1000), Shift(500, 500), Shift(4800, 2000)>>
       => /\ clsValue = 2000
          /\ clsEntries = <<Shift(4800, 2000)>>
          /\ metrics["cls"] = 200
  /\ \A v \in ShiftValues :
       CountedShifts = <<Shift(0, 1000), Shift(500, 500), Shift(4800, 2000), Shift(6000, v)>>
         => /\ clsValue = v
            /\ clsEntries = <<Shift(6000, v)>>
            /\ metrics["cls"] = RoundThousandths(v)

\* The four shifts of the example were handed to the callback.
C11_Witness ==
  /\ CountedShifts = <<Shift(0, 1000), Shift(500, 500), Shift(4800, 2000), Shift(6000, 500)>>
  /\ clsValue = 500
  /\ metrics["cls"] = 50

(***************************************************************************)
(* Claims about LCP (all under LcpSpec)                                    *)
(***************************************************************************)

\* The candidate of the last firing of the LCP callback.
FiredCandidate == lcpFired[1].entries[Len(lcpFired[1].entries)]

\* The selection policy: renderTime if > 0, otherwise loadTime if > 0,
\* otherwise startTime (in tenths of a millisecond).
SelectedTime(e) ==
  IF e.renderTime > 0 THEN e.renderTime
  ELSE IF e.loadTime > 0 THEN e.loadTime
  ELSE e.startTime

\* The three examples: 1200 / 1500 gives 1200, 0 / 900 gives 900, both 0 with
\* startTime 300 gives 300.
LcpExamples ==
  lcpFired # <<>> =>
    /\ (FiredCandidate.renderTime = 12000 /\ FiredCandidate.loadTime = 15000)
          => metrics["lcp"] = 1200
    /\ (FiredCandidate.renderTime = 0 /\ FiredCandidate.loadTime = 9000)
          => metrics["lcp"] = 900
    /\ (FiredCandidate.renderTime = 0 /\ FiredCandidate.loadTime = 0
          /\ FiredCandidate.startTime = 3000)
          => metrics["lcp"] = 300

\* C12 as stated: after every firing of the LCP callback the stored lcp is the
\* candidate's renderTime if > 0, otherwise its loadTime if > 0, otherwise its
\* startTime.
C12_StoredIsSelected ==
  /\ lcpFired # <<>> =>
       /\ "lcp" \in DOMAIN metrics
       /\ 10 * metrics["lcp"] = SelectedTime(FiredCandidate)
  /\ LcpExamples

\* C12 as amended: after every firing of the LCP callback, when the time the
\* policy selects from the candidate is > 0 the stored lcp is that time
\* rounded to the nearest millisecond, and when it is 0 the stored lcp is what
\* it was before the firing.
C12_StoredIsSelectedRounded ==
  /\ lcpFired # <<>> =>
       IF SelectedTime(FiredCandidate) > 0
         THEN /\ "lcp" \in DOMAIN metrics
              /\ metrics["lcp"] = MathRound(SelectedTime(FiredCandidate))
         ELSE IF "lcp" \in DOMAIN lcpFired[1].before
                THEN /\ "lcp" \in DOMAIN metrics
                     /\ metrics["lcp"] = lcpFired[1].before["lcp"]
                ELSE "lcp" \notin DOMAIN metrics
  /\ LcpExamples

\* A candidate with renderTime 0 and loadTime 900 overwrote an lcp of 1201.
C12_Witness ==
  /\ lcpFired # <<>>
  /\ FiredCandidate.renderTime = 0
  /\ FiredCandidate.loadTime = 9000
  /\ "lcp" \in DOMAIN lcpFired[1].before
  /\ lcpFired[1].before["lcp"] = 1201
  /\ metrics["lcp"] = 900

(***************************************************************************)
(* Claims about the RenderMonitor's records (under RenderSpec)             *)
(***************************************************************************)

\* The reasons of the records of the heuristic sources.
HeuristicReasons ==
  {"frame_drop"} \cup
  {AttributeChange(a) : a \in {"style", "class", "width", "height", "display", "position"}}

\* C13: the heuristic sources never grow the reflow sequence beyond 1000
\* entries: no frame_drop or attribute_change record is appended to a sequence
\* that holds 1000 entries, so none is ever at a place after the 1000th.
C13_HeuristicCap ==
  \A i \in DOMAIN reflows :
    i > MAX_REFLOW_RECORDS => reflows[i].reason \notin HeuristicReasons

(***************************************************************************)
(* Claims about getFrequentReflowElements (under FrequentSpec)             *)
(***************************************************************************)

\* How many reflow records carry an element of path p.
ReflowsOn(p) ==
  Cardinality({i \in DOMAIN reflows :
                 reflows[i].element # "undefined" /\ reflows[i].elementPath = p})

\* The paths with at least t reflow records carrying an element.
FrequentPaths(t) ==
  {p \in {getElementPath(e) : e \in Elements} : ReflowsOn(p) >= t}

PlainStyle ==
  [willChange |-> "auto", transform |-> "none",
   transition |-> [property |-> "all", duration |-> 0],
   opacity |-> 100, filter |-> "none", backdropFilter |-> "none"]

\* C15: the classification sets isAccelerated exactly when it recorded a
\* method; an element with transform translateZ(0) gets the methods transform
\* and transform-3d (these alone when it declares nothing else) and is
\* accelerated; an element whose only candidate property is opacity 1 is not
\* accelerated.
C15_GpuClassification ==
  \A i \in DOMAIN gpuScanned :
    LET style == gpuScanned[i].style
        info == gpuScanned[i].info
    IN  /\ info.isAccelerated <=> info.accelerationMethods # <<>>
        /\ style.transform = "translateZ(0)" =>
             /\ info.isAccelerated
             /\ {"transform", "transform-3d"} \subseteq Range(info.accelerationMethods)
        /\ style = [PlainStyle EXCEPT !.transform = "translateZ(0)"] =>
             Range(info.accelerationMethods) = {"transform", "transform-3d"}
        /\ style = PlainStyle => ~info.isAccelerated

\* The observed entries that the callback stores, in the order it stored them.
StoredFrom == SelectSeq(observations, LAMBDA e : e.duration > 500)

StoredTasks == IF "longTasks" \in DOMAIN metrics THEN metrics["longTasks"] ELSE <<>>

\* C17: every stored long task has at least one attribution entry unless the
\* host supplied an attribution array of length zero; when the host supplied
\* no attribution array, the stored task has exactly one entry, of taskType
\* "unknown".
C17_AttributionFallback ==
  /\ Len(StoredTasks) = Len(StoredFrom)
  /\ \A i \in 1..Len(StoredTasks) :
       LET given == StoredFrom[i].attribution
           kept == StoredTasks[i].attribution IN
       /\ (given.isArray /\ given.items = <<>>) => kept = <<>>
       /\ ~(given.isArray /\ given.items = <<>>) => Len(kept) >= 1
       /\ ~given.isArray => (Len(kept) = 1 /\ kept[1].taskType = "unknown")
       /\ given.isArray => Len(kept) = Len(given.items)

\* Stored: one task whose entry had no attribution array, one whose array
\* was empty and one with an attribution of the host.
C17_Witness ==
  /\ \E i \in 1..Len(StoredTasks) :
       /\ ~StoredFrom[i].attribution.isArray
       /\ StoredTasks[i].attribution = <<[taskType |-> "unknown", name |-> "self"]>>
  /\ \E i \in 1..Len(StoredTasks) :
       /\ StoredFrom[i].attribution.isArray
       /\ StoredTasks[i].attribution = <<>>
  /\ \E i \in 1..Len(StoredTasks) :
       /\ StoredFrom[i].attribution.isArray
       /\ Len(StoredTasks[i].attribution) = 1
       /\ StoredTasks[i].attribution[1].taskType = "taskattribution"

\* C18: every long task stored in the metrics has a duration over 50 ms.
C18_StoredOver50 ==
  \A i \in 1..Len(StoredTasks) : StoredTasks[i].duration > 50


\* C16: a snapshot returned by collect(), its long tasks included, is not
\* changed by later observations, and a change of the snapshot does not
\* change the collector's stored metrics.
C16_SnapshotIsCopy ==
  /\ held.snapshot # <<>> =>
       ReadSnapshot(held.snapshot[1]) = held.snapshot[1].fields
  /\ CallerTask \notin Range(StoredTasks)


\* C19: init() on an initialized PerformanceHelper is a no-op: it starts no
\* monitor, registers no listener, enqueues no envelope and changes nothing
\* of the reporter, the collector or the render monitor.
C19_DoubleInitNoOp ==
  [][(helperInitialized /\ helperCalls'.inits # helperCalls.inits) =>
       UNCHANGED <<helperInitialized, helperOptions, readyState, registered,
                   loadTimers, reporterVars, vitalsVars, renderVars, gpuVars>>]_vars

\* init() was called on an initialized helper, and warned.
C19_Witness ==
  /\ helperInitialized
  /\ helperCalls.warnings > 0
  /\ helperCalls.inits >= 2

ChannelMetrics(type) ==
  CASE type = "paint" -> {"fcp"}
    [] type = "largest-contentful-paint" -> {"lcp", "lcpElement"}
    [] type = "first-input" -> {"fid"}
    [] type = "layout-shift" -> {"cls"}
    [] type = "longtask" -> {"tbt", "longTasks"}

\* The observer of a channel.
ChannelObserver(type) ==
  CASE type = "paint" -> fcpObserver
    [] type = "largest-contentful-paint" -> lcpObserver
    [] type = "first-input" -> fidObserver
    [] type = "layout-shift" -> clsObserver
    [] type = "longtask" -> longTaskObserver

\* The channels the host lacks: all of them without PerformanceObserver.
Missing == IF host.PerformanceObserver THEN host.lacks ELSE Channels

\* After init() in a host that lacks channels, the channels the host has are
\* subscribed, but for an observer that disconnected itself on its metric and
\* the paint observer that init() does not create when it reads fcp itself.
C21_OtherChannelsSubscribed ==
  initialized =>
    \A type \in Channels \ Missing :
      \/ ChannelObserver(type) = "observing"
      \/ /\ ChannelObserver(type) \in {"disconnected", "undefined"}
         /\ type \in {"paint", "first-input"}
         /\ ChannelMetrics(type) \cap DOMAIN metrics # {}

\* C21: when the host lacks an observation channel, the MetricSet that
\* collect() returns after init() has no metric of the missing channel.
C21_MissingChannelMetricAbsent ==
  \A i \in DOMAIN snapshots :
    \A type \in Missing : ChannelMetrics(type) \cap DOMAIN snapshots[i] = {}

\* The same for every channel but the long tasks.
C21_MissingMetricAbsentButTBT ==
  \A i \in DOMAIN snapshots :
    \A type \in Missing \ {"longtask"} : ChannelMetrics(type) \cap DOMAIN snapshots[i] = {}

\* Without PerformanceObserver nothing is set.
C21_NoObserverNothingSet ==
  ~host.PerformanceObserver => \A i \in DOMAIN snapshots : snapshots[i] = << >>

(***************************************************************************)
(* C22: the session rule                                                   *)
(***************************************************************************)

\* The session rule on one shift: a shift with recent input changes
\* nothing; another one joins the current session iff it starts less than
\* 1000 after the previous member and less than 5000 after the session's
\* first member, otherwise it starts a new session with its own value.
SessionRule(s, entry) ==
  IF entry.hadRecentInput
    THEN s
    ELSE IF /\ Len(s.entries) > 0
            /\ entry.startTime - s.entries[Len(s.entries)].startTime < 1000
            /\ entry.startTime - s.entries[1].startTime < 5000
           THEN [value |-> s.value + entry.value, entries |-> Append(s.entries, entry)]
           ELSE [value |-> entry.value, entries |-> <<entry>>]

\* The current session under the rule after a sequence of shifts.
RECURSIVE SessionUnderRule(_, _)
SessionUnderRule(s, entries) ==
  IF entries = <<>>
    THEN s
    ELSE SessionUnderRule(SessionRule(s, Head(entries)), Tail(entries))

NoSession == [value |-> 0, entries |-> <<>>]

\* C22: after the callbacks, metrics.cls is the running value of the
\* current session under the rule, for sessions of value 0 too.
C22_ClsFollowsSessionRule ==
  clsDelivered # <<>> =>
    metrics["cls"] = RoundThousandths(SessionUnderRule(NoSession, clsDelivered).value)

\* The same where no shift without recent input has value 0.
C22_RuleOnNonZeroShifts ==
  (/\ clsDelivered # <<>>
   /\ \A i \in DOMAIN clsDelivered :
        clsDelivered[i].hadRecentInput \/ clsDelivered[i].value # 0)
  => metrics["cls"] = RoundThousandths(SessionUnderRule(NoSession, clsDelivered).value)

\* Seven shifts without zero value were delivered, the last one 5400 after
\* the first.
C22_LongChainDelivered ==
  /\ Len(clsDelivered) = 7
  /\ \A i \in DOMAIN clsDelivered : ~clsDelivered[i].hadRecentInput /\ clsDelivered[i].value # 0

(***************************************************************************)
(* C23: deferred callbacks after PerformanceHelper.destroy()               *)
(***************************************************************************)

\* The helper was destroyed and not initialized again.
Destroyed == ~helperInitialized /\ helperCalls.kept # <<>>

\* C23: while the helper stays destroyed, no step (a deferred callback among
\* them) reports an envelope, enqueues one or appends a record.
C23_DestroyClearsTimers ==
  [][(Destroyed /\ ~helperInitialized')
       => /\ reported' = reported
          /\ Len(queue') <= Len(queue)
          /\ Len(reflows') = Len(reflows)
          /\ Len(repaints') = Len(repaints)]_vars

\* The same, but for the 2000 ms timeout of the load listener.
C23_OnlyLoadTimerReports ==
  [][(Destroyed /\ ~helperInitialized' /\ loadTimers' >= loadTimers)
       => /\ reported' = reported
          /\ Len(queue') <= Len(queue)
          /\ Len(reflows') = Len(reflows)
          /\ Len(repaints') = Len(repaints)]_vars

(***************************************************************************)
(* C24: no envelope stays in the queue forever                             *)
(***************************************************************************)

\* The transports can take one more call within MaxSent.
SendBudget == Len(sent) < MaxSent

\* C24: in batched mode, with an interval that fires whenever it is set, an
\* envelope in the queue eventually leaves it (batchReport hands it to a
\* transport), whether it came in before or after destroy().
C24_QueueDrains ==
  \A e \in 1..MaxReports :
    (~immediate /\ e \in Range(queue)) ~> (e \notin Range(queue) \/ ~SendBudget)

\* The same for the envelopes queued while the interval is set.
C24_QueueDrainsWhileTimerSet ==
  \A e \in 1..MaxReports :
    (~immediate /\ e \in Range(queue) /\ timer \in intervals)
      ~> (e \notin Range(queue) \/ ~SendBudget)

\* An envelope is queued after destroy() cleared the interval.
C24_QueuedAfterDestroy ==
  /\ ~immediate
  /\ queue # <<>>
  /\ timer \notin intervals
  /\ SendBudget

(***************************************************************************)
(* C25, C26: markReflow() and markRepaint()                                *)
(***************************************************************************)

\* The calls whose deferred part has run, all and of one kind.
Completed == {i \in DOMAIN markCalls : markCalls[i].recorded # <<>>}
CompletedOf(kind) == {i \in Completed : markCalls[i].kind = kind}

\* C25: the record of each markReflow or markRepaint call holds the time
\* between the call's own start and end markers, and the given reason or
\* "manual", for repeated and overlapping calls too.
C25_OwnDurationAndReason ==
  \A i \in Completed :
    /\ markCalls[i].recorded[1].duration = markCalls[i].end - markCalls[i].start
    /\ markCalls[i].recorded[1].reason = ReasonOrManual(markCalls[i].reason)

\* The reason of each record is the given reason or "manual".
C25_ReasonKept ==
  \A i \in Completed :
    markCalls[i].recorded[1].reason = ReasonOrManual(markCalls[i].reason)

\* The only call of its kind records its own duration.
C25_SingleCallDuration ==
  \A i \in Completed :
    (\A j \in DOMAIN markCalls : j # i => markCalls[j].kind # markCalls[i].kind)
      => markCalls[i].recorded[1].duration = markCalls[i].end - markCalls[i].start

\* A single call that took time has completed.
C25_SingleCallCompleted ==
  /\ Len(markCalls) = 1
  /\ Completed = {1}
  /\ markCalls[1].end > markCalls[1].start

\* Every call was made while monitoring.
CalledWhileMonitoring == \A i \in DOMAIN markCalls : markCalls[i].monitoring

\* C26: while monitoring, each markReflow() call adds one record to the
\* reflows and each markRepaint() call one record to the repaints.
C26_OneRecordPerCall ==
  CalledWhileMonitoring =>
    /\ Len(reflows) = Cardinality(CompletedOf("reflow"))
    /\ Len(repaints) = Cardinality(CompletedOf("repaint"))

\* The records that are not from the measure observer.
Manual(records) == SelectSeq(records, LAMBDA r : r.reason # "measured")

\* Each call adds one record of its own.
C26_OneManualRecordPerCall ==
  /\ Len(Manual(reflows)) = Cardinality(CompletedOf("reflow"))
  /\ Len(Manual(repaints)) = Cardinality(CompletedOf("repaint"))

\* Calls made while monitoring have completed and the observer has run.
C26_CallsObserved ==
  /\ CalledWhileMonitoring
  /\ Completed # {}
  /\ markTimeouts = <<>>
  /\ measureQueue = <<>>

\* Two markReflow() calls, the second made after the first has ended: the
\* second call's record holds the first call's duration.
C25_RepeatedCallStaleMeasure ==
  /\ Len(markCalls) = 2
  /\ Completed = {1, 2}
  /\ markCalls[1].kind = "reflow" /\ markCalls[2].kind = "reflow"
  /\ markCalls[1].start = 0 /\ markCalls[1].end = 1
  /\ markCalls[2].start = 2 /\ markCalls[2].end = 2
  /\ markCalls[2].recorded[1].duration = 1

(***************************************************************************)
(* C27: attribute mutations                                                *)
(***************************************************************************)

\* The attributeFilter of the mutation observer.
AllowList == {"style", "class", "width", "height", "display", "position"}

\* One record with duration 0 and reason attribute_change:<attr> for each of
\* the mutations.
AttributeRecords(mutations) ==
  [i \in DOMAIN mutations |->
     RenderInfo(mutations[i].target, AttributeChange(mutations[i].attributeName), 0, 0)]

\* The attribute mutations among the queued ones, all and those of the
\* attributes width, height, display and position.
AttributeMutations(mutations) ==
  SelectSeq(mutations, LAMBDA m : m.type = "attributes" /\ m.attributeName \in AllowList)
SizeMutations(mutations) ==
  SelectSeq(mutations, LAMBDA m : /\ m.type = "attributes"
                                  /\ m.attributeName \in {"width", "height", "display",
                                                          "position"})

\* A step is the mutation observer's callback, while monitoring and below
\* the cap.
MutationsDelivered ==
  /\ isMonitoring
  /\ mutationObserver = "observing"
  /\ mutationQueue # <<>>
  /\ mutationQueue' = <<>>
  /\ mutationObserver' = "observing"
  /\ Len(reflows) + Len(mutationQueue) <= MAX_REFLOW_RECORDS

\* C27: the callback appends one record with duration 0 and reason
\* attribute_change:<attr> for every mutation of an attribute of the allow-list.
C27_AllowListRecorded ==
  [][MutationsDelivered
       => reflows' = reflows \o AttributeRecords(AttributeMutations(mutationQueue))]_vars

\* The callback appends such a record for every mutation of width, height,
\* display or position, and none for another mutation.
C27_SizeAttributesRecorded ==
  [][MutationsDelivered
       => reflows' = reflows \o AttributeRecords(SizeMutations(mutationQueue))]_vars

\* A mutation of width was recorded.
C27_WidthRecorded ==
  \E i \in DOMAIN reflows : reflows[i].reason = "attribute_change:width"

(***************************************************************************)
(* C28: the frame loop                                                     *)
(***************************************************************************)

\* A step is one frame of the monitor's frame loop.
FrameStep == renderCalls'.frames = renderCalls.frames + 1 /\ Len(frameLoops) = 1

\* The frame_drop records of one emission: one for each of the (at most 5)
\* most suspicious elements.
FrameDrops(deltaTime, droppedFrames) ==
  LET sorted == SortByCount(suspiciousElements)
      n == IF Len(sorted) < 5 THEN Len(sorted) ELSE 5
  IN  [i \in 1..n |-> RenderInfo(sorted[i].element, "frame_drop", deltaTime, droppedFrames)]

C28_SlowFrameNotCounted ==
  /\ renderCalls.frames = 2
  /\ frameLoops = <<1>>
  /\ reflows = <<>>

(***************************************************************************)
(* C29: start() after stop()                                               *)
(***************************************************************************)

\* C29: at most one frame loop is scheduled at a time, whatever the start()
\* and stop() calls were.
C29_OneFrameLoop == Len(frameLoops) <= 1

\* Two frame loops of a monitoring monitor have both evaluated a slow frame.
C29_TwoLoopsRunning ==
  /\ isMonitoring
  /\ Len(frameLoops) = 2
  /\ frameLoops[1] > 0
  /\ frameLoops[2] > 0

(***************************************************************************)
(* C30: the decay of the suspicious elements                               *)
(***************************************************************************)

\* The elements of the suspicious set.
Suspicious == {suspiciousElements[i].element : i \in DOMAIN suspiciousElements}

\* The elements the mutation callback was told of less than 5 s ago.
RecentlyMutated ==
  {decayTimers[i] : i \in {j \in DOMAIN decayTimers : clock - decaySet[j] < DecayDelay}}

\* C30: an element mutated less than 5 s ago is in the suspicious set.
C30_DecayFromLastMutation == RecentlyMutated \subseteq Suspicious

\* An element is in the set only while a timeout of one of its mutations is
\* pending.
C30_RemovedWithLastTimeout == Suspicious \subseteq Range(decayTimers)

\* An element's only mutation has timed out after 5 s and the element is gone.
C30_SingleMutationDecayed ==
  /\ renderCalls.mutations = 1
  /\ mutationQueue = <<>>
  /\ decayTimers = <<>>
  /\ suspiciousElements = <<>>
  /\ clock >= DecayDelay

(***************************************************************************)
(* Claims about collect() and the final LCP (under FinalLcpSpec)           *)
(***************************************************************************)

\* The last raw LCP observation of the page.
LastCandidate == lcpTimeline[Len(lcpTimeline)]

\* What collect() returned last.
Returned == snapshots[Len(snapshots)]

\* The returned lcp is what the policy selects from the last raw observation
\* (rounded to the millisecond; nothing is asked when the policy selects 0).
ReturnedIsFinalLcp ==
  SelectedTime(LastCandidate) > 0 =>
    /\ "lcp" \in DOMAIN Returned
    /\ Returned["lcp"] = MathRound(SelectedTime(LastCandidate))

\* C31 as stated: whenever the page has LCP candidates, a collect() returns the
\* lcp the selection policy gives for the last of them, also after destroy()
\* disconnected the observer.
C31_CollectReturnsFinalLcp ==
  [][(lcpTimeline # <<>> /\ lcpFired' = <<>> /\ snapshots' # <<>>
        /\ (snapshots' # snapshots \/ lcpFired # <<>>))
       => ReturnedIsFinalLcp']_vars

\* In a host whose getEntriesByType returns the candidates, it does.
C31_ExposedHostReturnsFinalLcp ==
  [][(lcpExposed /\ lcpTimeline # <<>> /\ lcpFired' = <<>> /\ snapshots' # <<>>
        /\ (snapshots' # snapshots \/ lcpFired # <<>>))
       => ReturnedIsFinalLcp']_vars

\* In a host whose getEntriesByType returns no candidate, a collect() after
\* destroy() has returned the lcp of an earlier candidate: 300 where the last
\* candidate gives 1200.
C31_StaleAfterDestroy ==
  /\ ~lcpExposed
  /\ lcpObserver = "disconnected"
  /\ snapshots # <<>>
  /\ lcpTimeline # <<>>
  /\ SelectedTime(LastCandidate) = 12000
  /\ "lcp" \in DOMAIN Returned
  /\ Returned["lcp"] = 300

(***************************************************************************)
(* Claims about lcpElement (under LcpSpec)                                 *)
(***************************************************************************)

\* The last firing of the LCP callback overwrote lcp.
LcpOverwritten == lcpFired # <<>> /\ SelectedTime(FiredCandidate) > 0

\* C32 as stated: the stored lcpElement belongs to the observation of the
\* stored lcp; when a candidate overwrites lcp, lcpElement does not keep the
\* path of an earlier candidate.
C32_ElementOfStoredLcp ==
  (LcpOverwritten /\ "lcpElement" \in DOMAIN metrics)
    => metrics["lcpElement"] = FiredCandidate.element

\* A candidate that has an element overwrites lcpElement with its path.
C32_ElementCandidateOverwrites ==
  (LcpOverwritten /\ FiredCandidate.element # "null")
    => /\ "lcpElement" \in DOMAIN metrics
       /\ metrics["lcpElement"] = FiredCandidate.element

\* A candidate without an element (renderTime 0, loadTime 900) overwrote an
\* lcp of 1200 and left the lcpElement of the earlier candidate.
C32_StaleElementKept ==
  /\ LcpOverwritten
  /\ FiredCandidate.element = "null"
  /\ "lcp" \in DOMAIN lcpFired[1].before
  /\ lcpFired[1].before["lcp"] = 1200
  /\ metrics["lcp"] = 900
  /\ "lcpElement" \in DOMAIN metrics
  /\ metrics["lcpElement"] = "html > body > img.hero"

(***************************************************************************)
(* Claims about fid (under FidSpec)                                        *)
(***************************************************************************)

\* processingStart - startTime of the page's first input, in tenths of a
\* millisecond.
InputDelay == inputTimeline[1].processingStart - inputTimeline[1].startTime

\* C33 as stated: fid is processingStart - startTime of the first first-input
\* observation, and no later observation changes it.
C33_FidIsInputDelay ==
  "fid" \in DOMAIN metrics =>
    /\ inputTimeline # <<>>
    /\ 10 * metrics["fid"] = InputDelay

\* fid, once set, is processingStart - startTime of the page's first input
\* rounded to the nearest millisecond.
FidIsRounded ==
  "fid" \in DOMAIN metrics =>
    /\ inputTimeline # <<>>
    /\ metrics["fid"] = MathRound(InputDelay)

\* C33 as amended: fid is set from the first-input observation as
\* processingStart - startTime rounded to the nearest millisecond, and no
\* later step (a second delivery of the observation to a new observer after
\* destroy() and init() included) changes it.
C33_FidRoundedSingleShot ==
  [][/\ FidIsRounded'
     /\ "fid" \in DOMAIN metrics =>
          ("fid" \in DOMAIN metrics' /\ metrics'["fid"] = metrics["fid"])]_vars

\* An input processed after 16.5 ms gave fid 17; the observer of a second
\* init() has disconnected itself.
C33_Witness ==
  /\ "fid" \in DOMAIN metrics
  /\ metrics["fid"] = 17
  /\ InputDelay = 165
  /\ subscriptions = 2
  /\ initialized
  /\ fidObserver = "disconnected"

(***************************************************************************)
(* Claims about the opacity method (under GpuSpec)                         *)
(***************************************************************************)

\* The scanned element's only candidate property is its opacity.
OnlyOpacity(style) == style = [PlainStyle EXCEPT !.opacity = style.opacity]

\* The opacity method is in the finding's methods.
HasOpacityMethod(info) ==
  \E i \in DOMAIN info.accelerationMethods : info.accelerationMethods[i] = "opacity"

\* C37 as stated: the opacity method is recorded only for an opacity strictly
\* between 0 and 1; an element whose only candidate property is an opacity of
\* 0 or of 1 is not accelerated.
C37_OpacityStrictlyBetween ==
  \A i \in DOMAIN gpuScanned :
    /\ HasOpacityMethod(gpuScanned[i].info)
         => (gpuScanned[i].style.opacity > 0 /\ gpuScanned[i].style.opacity < 100)
    /\ (OnlyOpacity(gpuScanned[i].style) /\ gpuScanned[i].style.opacity \in {0, 100})
         => ~gpuScanned[i].info.isAccelerated

\* The method is recorded exactly for an opacity below 1, 0 included.
C37_OpacityBelowOne ==
  \A i \in DOMAIN gpuScanned :
    /\ HasOpacityMethod(gpuScanned[i].info) <=> gpuScanned[i].style.opacity < 100
    /\ gpuScanned[i].info.opacity <=> gpuScanned[i].style.opacity < 100

\* An element with opacity 0 and nothing else is in the GPU findings, with
\* the opacity method alone.
C37_TransparentElementAccelerated ==
  \E i \in DOMAIN gpuScanned :
    /\ OnlyOpacity(gpuScanned[i].style)
    /\ gpuScanned[i].style.opacity = 0
    /\ gpuScanned[i].info.accelerationMethods = <<"opacity">>
    /\ \E j \in DOMAIN gpuAcceleratedElements :
         gpuAcceleratedElements[j] = gpuScanned[i].info

(***************************************************************************)
(* C36: the render records at teardown (under TeardownSpec)                *)
(***************************************************************************)

\* What getRenderMetrics() reports with nothing recorded.
NoRenderMetrics ==
  [reflowCount |-> 0, repaintCount |-> 0, reflows |-> <<>>, repaints |-> <<>>,
   gpuAcceleratedCount |-> 0, gpuAcceleratedElements |-> <<>>,
   totalReflowTime |-> 0, totalRepaintTime |-> 0]

\* C36 as stated: after PerformanceHelper.destroy(), getRenderMetrics()
\* reports zero counts and empty sequences.
C36_DestroyClearsRecords == Destroyed => RenderMonitor_getMetrics = NoRenderMetrics

\* destroy() leaves the records as they were before it: a helper that had
\* recorded a reflow still reports it.
C36_RecordsKeptByDestroy ==
  /\ Destroyed
  /\ RenderMonitor_getMetrics.reflowCount = 1
  /\ Len(helperCalls.kept[1].reflows) = 1

\* After clear() getMetrics() reports zero counts and empty sequences (under
\* ClearSpec).
C36_ClearEmptiesRecords ==
  [][RenderClearCall => (RenderMonitor_getMetrics = NoRenderMetrics)']_vars

(***************************************************************************)
(* Claims about the deferred GPU scan (under ScanSpec and ScanLiveSpec)    *)
(***************************************************************************)

\* C34 as stated: over any sequence of start() and stop() calls (init() and
\* destroy() call these), each element appears at most once in the GPU
\* findings.
C34_EachElementOnce ==
  \A i, j \in DOMAIN gpuAcceleratedElements :
    gpuAcceleratedElements[i].element = gpuAcceleratedElements[j].element => i = j

\* The batches of one scan.
BatchesOf(scan) == SelectSeq(scanLog, LAMBDA b : b.scan = scan)

\* Within one scan no element is found twice: with one start() the findings
\* hold each element at most once.
C34_OneStartEachElementOnce == renderCalls.starts <= 1 => C34_EachElementOnce

\* After start(), stop() and start() two scans of a page with one candidate
\* have run, and the candidate is in the findings twice.
C34_FoundTwice ==
  /\ renderCalls.starts = 2
  /\ Len(BatchesOf(1)) = 1 /\ Len(BatchesOf(2)) = 1
  /\ scanLog[1].candidates = 1 /\ scanLog[2].candidates = 1
  /\ Len(gpuAcceleratedElements) = 2
  /\ gpuAcceleratedElements[1].element = Row(0)
  /\ gpuAcceleratedElements[2].element = Row(0)

\* The scans start() has asked for so far.
Scans == 1..renderCalls.starts

\* A step of the scan is pending; the scan has started when that step is not
\* its load listener.
Pending(scan) == \E k \in DOMAIN gpuScans : gpuScans[k].scan = scan
Started(scan) == \E k \in DOMAIN gpuScans : gpuScans[k].scan = scan /\ gpuScans[k].stage # "load"

\* The scan has run its batches and has no step left.
Finished(scan) == BatchesOf(scan) # <<>> /\ ~Pending(scan)

\* How many batches of the scan classified candidates[c].
Classified(scan, c) ==
  Cardinality({i \in DOMAIN BatchesOf(scan) :
                 BatchesOf(scan)[i].index <= c /\ c < BatchesOf(scan)[i].endIndex})

\* The candidates of a page of this size that are accelerated.
AcceleratedRows(candidates) ==
  {i \in 0..(candidates - 1) :
     RenderMonitor_checkGPUAcceleration(Row(i), getComputedStyle(RowStyle(i))).isAccelerated}

\* No batch holds more than 50 candidates; no candidate of a scan is
\* classified twice, and every candidate of a finished scan was classified;
\* the findings of a single finished scan are its accelerated candidates, once
\* each.
BatchesInOrder ==
  /\ \A i \in DOMAIN scanLog :
       /\ scanLog[i].index <= scanLog[i].endIndex
       /\ scanLog[i].endIndex - scanLog[i].index <= batchSize
  /\ \A scan \in Scans :
       BatchesOf(scan) # <<>> =>
         \A c \in 0..(BatchesOf(scan)[1].candidates - 1) :
           /\ Classified(scan, c) <= 1
           /\ Finished(scan) => Classified(scan, c) = 1
  /\ (renderCalls.starts = 1 /\ Finished(1)) =>
       /\ {gpuAcceleratedElements[i].element : i \in DOMAIN gpuAcceleratedElements}
            = {Row(c) : c \in AcceleratedRows(scanLog[1].candidates)}
       /\ Len(gpuAcceleratedElements)
            = Cardinality(AcceleratedRows(scanLog[1].candidates))

\* C35: the GPU scan handles at most 50 candidates per scheduling step, one
\* batch per step of the host (control is yielded between batches),
\* classifies every candidate exactly once, and a scan that has started
\* eventually finishes, for every number of candidates up to MaxPage.
C35_BatchedScanFinishes ==
  /\ []BatchesInOrder
  /\ [][Len(scanLog') <= Len(scanLog) + 1]_vars
  /\ \A scan \in 1..MaxStarts : Started(scan) ~> ~Pending(scan)

\* A scan of MaxPage candidates has finished in three batches, of 50, of 50
\* and of the rest, and has found the accelerated candidates (two of every
\* three rows).
C35_Witness ==
  /\ renderCalls.starts = 1
  /\ Finished(1)
  /\ Len(scanLog) = 3
  /\ scanLog[1].candidates = MaxPage
  /\ scanLog[2].index = batchSize
  /\ scanLog[3].index = batchSize + batchSize
  /\ scanLog[3].endIndex = MaxPage
  /\ Len(gpuAcceleratedElements) = Cardinality(AcceleratedRows(MaxPage))
  /\ Len(gpuAcceleratedElements) > batchSize

(***************************************************************************)
(* C38: frequent_style_read (under StyleSpec)                              *)
(***************************************************************************)

\* The last read was the sixth within a window of 10 ms.
SixReadsInWindow ==
  /\ Len(styleReads.times) = 6
  /\ styleReads.times[6] - styleReads.times[1] < 10

\* The last read made the wrapper call markRepaint(element,
\* 'frequent_style_read').
FrequentReadMarked == styleReads.marked # <<>>

\* C38 as stated: a frequent_style_read repaint is recorded exactly when more
\* than 5 reads occur within a 10-unit window, and the element recorded is
\* the one with the highest read count at that moment.
C38_FrequentStyleRead ==
  styleReads.n > 0 =>
    /\ FrequentReadMarked <=> SixReadsInWindow
    /\ FrequentReadMarked =>
         \A i \in DOMAIN styleReads.counts :
           styleReads.counts[i].count
             <= ReadCountOf(styleReads.counts, styleReads.marked[1])

\* What is recorded is an element read more than 3 times since the counts
\* were reset, at a read less than 10 ms after the read before it.
C38_MarkedWasReadFourTimes ==
  FrequentReadMarked =>
    /\ ReadCountOf(styleReads.counts, styleReads.marked[1]) > 3
    /\ Len(styleReads.times) >= 2
    /\ styleReads.times[Len(styleReads.times)]
         - styleReads.times[Len(styleReads.times) - 1] < 10

\* Six reads at one time, three of e1 and three of e2: nothing is recorded.
C38_SixReadsNothingRecorded ==
  /\ SixReadsInWindow
  /\ ~FrequentReadMarked
  /\ ReadCountOf(styleReads.counts, "e1") = 3
  /\ ReadCountOf(styleReads.counts, "e2") = 3

\* A repaint is recorded at a read whose window of 10 ms holds two reads: the
\* six reads took 80 ms.
C38_RecordedOutsideWindow ==
  /\ FrequentReadMarked
  /\ styleReads.n = 6
  /\ styleReads.times[6] - styleReads.times[1] = 80
  /\ styleReads.times[5] = styleReads.times[6]

\* e1 is recorded with a count of 4 while e2 has a count of 5.
C38_NotTheMostRead ==
  /\ styleReads.marked = <<"e1">>
  /\ ReadCountOf(styleReads.counts, "e1") = 4
  /\ ReadCountOf(styleReads.counts, "e2") = 5

(***************************************************************************)
(* C39: the legacy navigation timing (under NavigationSpec)                *)
(***************************************************************************)

\* The last collect() returned the seven navigation-phase timings as
\* collectNavigationTimingLegacy() computes them.
ReturnsLegacyTimings ==
  /\ navigation.timing
  /\ \A k \in NavigationFields :
       /\ k \in DOMAIN Returned
       /\ Returned[k] = PerformanceCollector_collectNavigationTimingLegacy(<< >>)[k]

\* C39 as stated: when there is no navigation entry but performance.timing
\* exists, collect() returns dns, tcp, ttfb, request, parse, domContentLoaded
\* and load, computed from performance.timing.
C39_LegacyFallback ==
  (snapshots # <<>> /\ navigation.getEntriesByType # "entry" /\ navigation.timing)
    => ReturnsLegacyTimings

\* The legacy timings are returned only where getEntriesByType throws.
C39_LegacyOnlyAfterThrow ==
  snapshots # <<>> =>
    (ReturnsLegacyTimings
       <=> navigation.getEntriesByType = "throws" /\ navigation.timing)

\* getEntriesByType returned no navigation entry, performance.timing exists,
\* and collect() returned none of the timings.
C39_NoTimingsReturned ==
  /\ snapshots # <<>>
  /\ navigation.getEntriesByType = "empty"
  /\ navigation.timing
  /\ DOMAIN Returned \cap NavigationFields = {}

\* The same in a host without getEntriesByType.
C39_NoTimingsWithoutGetEntries ==
  /\ snapshots # <<>>
  /\ navigation.getEntriesByType = "missing"
  /\ navigation.timing
  /\ DOMAIN Returned \cap NavigationFields = {}

====
